---- MODULE Spec2Model ----
(***************************************************************************)
(* ToolMint: the SQL parameterizer (src/src/parameterizer.py), the         *)
(* quality scorer (src/src/quality.py) and the validator                   *)
(* (src/src/validation.py).  SQL text is a string; every regular           *)
(* expression of the source is an operator that scans the string           *)
(* character by character the way re.sub does.                             *)
(***************************************************************************)
EXTENDS Integers, Sequences, FiniteSets, TLC

(***************************************************************************)
(* Characters and strings                                                  *)
(***************************************************************************)
LowerAlpha == "abcdefghijklmnopqrstuvwxyz"
UpperAlpha == "ABCDEFGHIJKLMNOPQRSTUVWXYZ"
DigitChars == {"0", "1", "2", "3", "4", "5", "6", "7", "8", "9"}
LowerChars == {SubSeq(LowerAlpha, i, i) : i \in 1..26}
UpperChars == {SubSeq(UpperAlpha, i, i) : i \in 1..26}
SpaceChars == {" ", "\t", "\n"}
WordChars == DigitChars \cup LowerChars \cup UpperChars \cup {"_"}
IdentStartChars == LowerChars \cup UpperChars \cup {"_"}

\* the character of s at position i (1-based), "" outside the string
At(s, i) == IF i >= 1 /\ i <= Len(s) THEN SubSeq(s, i, i) ELSE ""

IsWord(s, i) == At(s, i) \in WordChars
IsDigit(s, i) == At(s, i) \in DigitChars
IsSpace(s, i) == At(s, i) \in SpaceChars

\* regex \b at the gap before position i
WordBoundary(s, i) == IsWord(s, i - 1) # IsWord(s, i)

UpperMap == [c \in LowerChars |->
               LET k == CHOOSE i \in 1..26 : SubSeq(LowerAlpha, i, i) = c
               IN SubSeq(UpperAlpha, k, k)]
LowerMap == [c \in UpperChars |->
               LET k == CHOOSE i \in 1..26 : SubSeq(UpperAlpha, i, i) = c
               IN SubSeq(LowerAlpha, k, k)]
UpperCh(c) == IF c \in LowerChars THEN UpperMap[c] ELSE c
LowerCh(c) == IF c \in UpperChars THEN LowerMap[c] ELSE c

RECURSIVE MapCase(_, _)
\* str.upper() (up = TRUE) / str.lower() (up = FALSE), by halves
MapCase(s, up) ==
  IF Len(s) = 0 THEN ""
  ELSE IF Len(s) = 1 THEN (IF up THEN UpperCh(s) ELSE LowerCh(s))
  ELSE LET h == Len(s) \div 2
       IN MapCase(SubSeq(s, 1, h), up) \o MapCase(SubSeq(s, h + 1, Len(s)), up)

Upper(s) == MapCase(s, TRUE)
Lower(s) == MapCase(s, FALSE)

\* Python's "sub in s"
Contains(s, sub) ==
  \E i \in 1..(Len(s) - Len(sub) + 1) : SubSeq(s, i, i + Len(sub) - 1) = sub

\* Python's s.count(sub) for a sub that cannot overlap itself
Count(s, sub) ==
  Cardinality({i \in 1..(Len(s) - Len(sub) + 1) : SubSeq(s, i, i + Len(sub) - 1) = sub})

\* the literal kw (given in upper case) matches s at i, ignoring case (re.I)
MatchKw(s, i, kw) ==
  /\ i + Len(kw) - 1 <= Len(s)
  /\ UpperCh(At(s, i)) = At(kw, 1)
  /\ Upper(SubSeq(s, i, i + Len(kw) - 1)) = kw

RECURSIVE SkipSpaces(_, _)
\* greedy \s*: the first position at or after i that holds no whitespace
SkipSpaces(s, i) == IF IsSpace(s, i) THEN SkipSpaces(s, i + 1) ELSE i

RECURSIVE SkipWord(_, _)
\* greedy \w*
SkipWord(s, i) == IF IsWord(s, i) THEN SkipWord(s, i + 1) ELSE i

RECURSIVE SkipDigits(_, _)
\* greedy \d*
SkipDigits(s, i) == IF IsDigit(s, i) THEN SkipDigits(s, i + 1) ELSE i

RECURSIVE SkipWordDot(_, _)
\* greedy [\w\.]*
SkipWordDot(s, i) ==
  IF IsWord(s, i) \/ At(s, i) = "." THEN SkipWordDot(s, i + 1) ELSE i

\* the smallest element of a non-empty set of positions
MinOf(S) == CHOOSE j \in S : \A k \in S : j <= k

\* the leftmost of a set of positions, 0 when the set is empty: where a regex
\* search finds its match
First(M) == IF M = {} THEN 0 ELSE MinOf(M)

\* the first position at or after i that holds c, 0 when there is none
FindCh(s, c, i) == First({j \in i..Len(s) : At(s, j) = c})

RECURSIVE StripLeft(_, _)
StripLeft(s, cs) ==
  IF Len(s) > 0 /\ At(s, 1) \in cs THEN StripLeft(SubSeq(s, 2, Len(s)), cs) ELSE s

RECURSIVE StripRight(_, _)
StripRight(s, cs) ==
  IF Len(s) > 0 /\ At(s, Len(s)) \in cs
  THEN StripRight(SubSeq(s, 1, Len(s) - 1), cs) ELSE s

\* Python's s.strip(chars)
Strip(s, cs) == StripRight(StripLeft(s, cs), cs)

RECURSIVE ReplaceCh(_, _, _)
\* Python's s.replace(c, d) for a single character c
ReplaceCh(s, c, d) ==
  LET j == FindCh(s, c, 1)
  IN IF j = 0 THEN s
     ELSE SubSeq(s, 1, j - 1) \o d \o ReplaceCh(SubSeq(s, j + 1, Len(s)), c, d)

RECURSIVE SubNonAlnum(_, _)
\* re.sub(r'[^a-z0-9]+', '_', s) from position i on: every maximal run of
\* characters outside [a-z0-9] becomes one underscore
SubNonAlnum(s, i) ==
  LET Rest(e) == IF e = 0 THEN "" ELSE SubNonAlnum(s, e)
      Run(m) ==
        IF m = 0 THEN SubSeq(s, i, Len(s))
        ELSE SubSeq(s, i, m - 1) \o "_"
               \o Rest(First({j \in m..Len(s) : At(s, j) \in (LowerChars \cup DigitChars)}))
  IN Run(First({j \in i..Len(s) : At(s, j) \notin (LowerChars \cup DigitChars)}))

Prefix(s, n) == SubSeq(s, 1, IF Len(s) < n THEN Len(s) ELSE n)

\* Python's s.split(c) for a single character c
RECURSIVE Split(_, _)
Split(s, c) ==
  LET j == FindCh(s, c, 1)
  IN IF j = 0 THEN <<s>>
     ELSE <<SubSeq(s, 1, j - 1)>> \o Split(SubSeq(s, j + 1, Len(s)), c)

RECURSIVE Join(_, _)
\* Python's sep.join(parts)
Join(parts, sep) ==
  IF Len(parts) = 0 THEN ""
  ELSE IF Len(parts) = 1 THEN parts[1]
  ELSE parts[1] \o sep \o Join(Tail(parts), sep)

\* re.match(r'^[a-zA-Z_][\w]*$', col)
IsIdentifier(col) ==
  /\ Len(col) >= 1
  /\ At(col, 1) \in IdentStartChars
  /\ \A i \in 2..Len(col) : IsWord(col, i)

(***************************************************************************)
(* Parameter list and name registry of one SQLParameterizer                *)
(***************************************************************************)
\* the template token written for a parameter
Placeholder(name) == "{{." \o name \o "}}"

NameMap(base) ==
  IF base = "limit" THEN "limit_n"
  ELSE IF base = "offset" THEN "offset_n" ELSE base

\* the suffix loop stopped after its first step: base_i, taken or not
FirstFree_once(base, names, i) == base \o "_" \o ToString(i)

RECURSIVE FirstFree(_, _, _)
\* the while loop of _make_param_name
FirstFree(base, names, i) ==
  IF (base \o "_" \o ToString(i)) \in names
  THEN FirstFree(base, names, i + 1)
  ELSE base \o "_" \o ToString(i)

\* SQLParameterizer._make_param_name
make_param_name(base, names) ==
  LET b == NameMap(base)
  IN IF b \notin names THEN b ELSE FirstFree(b, names, 1)

\* _add_param without its "already there" return: every call appends
add_param_unguarded(c, name, typ, desc, default_value) ==
  [c EXCEPT !.names = @ \cup {name},
            !.params = Append(@, [name |-> name, type |-> typ,
                description |-> desc \o " (e.g., " \o default_value \o ")"])]

\* SQLParameterizer._add_param on the accumulator c (fields params, names)
add_param(c, name, typ, desc, default_value) ==
  IF name \in c.names THEN c
  ELSE [c EXCEPT !.names = @ \cup {name},
                 !.params = Append(@, [name |-> name, type |-> typ,
                     description |-> desc \o " (e.g., " \o default_value \o ")"])]

\* the accumulator a pass threads through its matches: out, the text written
\* so far; params and names, the instance's parameter list and name registry;
\* rewrites, the number of matches rewritten so far
Emit(c, text) == [c EXCEPT !.out = @ \o text]
StartPass(c) == [c EXCEPT !.out = ""]

(***************************************************************************)
(* Regular-expression matches.  A match is a record with the fields start, *)
(* end (exclusive), group0, group1, ... of the Python match object.        *)
(***************************************************************************)
\* what a pattern yields at a position where it does not match
NoMatch == [end |-> 0]

\* the matches among the candidates M, one candidate per start position
Matches(M) == {g \in M : g.end # 0}

\* the leftmost match of a non-empty set of matches: the one re.sub replaces
\* next
Leftmost(M) == CHOOSE g \in M : \A h \in M : g.start <= h.start

\* bookkeeping of a scan: b is the accumulator before the replacer ran on the
\* match g and d the one after; a match whose replacer returned anything but
\* match.group(0) counts as rewritten
Tally(b, g, d) ==
  IF d.out = b.out \o g.group0 THEN d ELSE [d EXCEPT !.rewrites = @ + 1]

(***************************************************************************)
(* Pass 1: string literals                                                 *)
(***************************************************************************)
SkipValues == {"ASC", "DESC", "YES", "NO", "Y", "N"}

\* re.sub(r'[^a-z0-9]+', '_', v.lower()).strip('_')[:20]
SafeValue(v) == Prefix(Strip(SubNonAlnum(Lower(v), 1), {"_"}), 20)

\* replacer of _parameterize_strings
string_replacer(c, g) ==
  LET Put(param_name, desc) ==
        Emit(add_param(c, param_name, "string", desc, g.group1), Placeholder(param_name))
      Named(safe_value, fallback) ==
        make_param_name(IF safe_value = "" THEN fallback ELSE safe_value, c.names)
  IN IF Len(g.group1) <= 1 \/ Upper(g.group1) \in SkipValues THEN Emit(c, g.group0)
     ELSE IF Contains(g.group1, "%")
     THEN Put(Named(SafeValue(Strip(ReplaceCh(ReplaceCh(g.group1, "%", ""), "/", "_"),
                                    {"_"})), "pattern"),
              "String pattern for LIKE")
     ELSE Put(Named(SafeValue(g.group1), "str_value"), "String value")

\* the match of q([^q]+)q at i, q the quote character
StringMatch(s, q, i) ==
  LET Close(j) == IF j = 0 THEN NoMatch
                  ELSE [start |-> i, end |-> j + 1, group0 |-> SubSeq(s, i, j),
                        group1 |-> SubSeq(s, i + 1, j - 1)]
  IN IF At(s, i) = q /\ i + 1 <= Len(s) /\ At(s, i + 1) # q
     THEN Close(FindCh(s, q, i + 2)) ELSE NoMatch

RECURSIVE StringScan(_, _, _, _)
\* re.sub(q([^q]+)q, replacer, s) from position i on: the text up to the
\* leftmost match is copied, the match is replaced, and the search resumes
\* where the match ended
StringScan(s, q, i, c) ==
  LET Replace(g, b) == StringScan(s, q, g.end, Tally(b, g, string_replacer(b, g)))
      Copy(g) == Replace(g, Emit(c, SubSeq(s, i, g.start - 1)))
      From(M) == IF M = {} THEN Emit(c, SubSeq(s, i, Len(s))) ELSE Copy(Leftmost(M))
  IN From(Matches({StringMatch(s, q, j) : j \in i..Len(s)}))

\* _parameterize_strings with the two substitutions in the other order
parameterize_strings_single_first(c) ==
  LET Double(d) == StringScan(d.out, "\"", 1, StartPass(d))
  IN Double(StringScan(c.out, "'", 1, StartPass(c)))

\* SQLParameterizer._parameterize_strings: double quotes first, then single
parameterize_strings(c) ==
  LET Single(d) == StringScan(d.out, "'", 1, StartPass(d))
  IN Single(StringScan(c.out, "\"", 1, StartPass(c)))

(***************************************************************************)
(* Pass 2: numeric literals                                                *)
(***************************************************************************)
\* the match of \b(\d+(?:\.\d+)?)\b at i; string is the text searched
NumberMatch(s, i) ==
  LET Found(e) == [start |-> i, end |-> e, string |-> s, group0 |-> SubSeq(s, i, e - 1),
                   group1 |-> SubSeq(s, i, e - 1)]
      Whole(j) == IF ~IsWord(s, j) THEN Found(j) ELSE NoMatch
      Fraction(j, k) == IF ~IsWord(s, k) THEN Found(k) ELSE Whole(j)
      Digits(j) == IF At(s, j) = "." /\ IsDigit(s, j + 1)
                   THEN Fraction(j, SkipDigits(s, j + 1)) ELSE Whole(j)
  IN IF IsDigit(s, i) /\ WordBoundary(s, i) THEN Digits(SkipDigits(s, i)) ELSE NoMatch

NumberContext == {"WHERE", "HAVING", "BETWEEN", ">", "<", "=", "!=", "<>", ">=", "<="}

\* number_replacer with the context test ahead of the LIMIT/OFFSET test
number_replacer_context_first(c, g) ==
  LET Put(param_name) ==
        Emit(add_param(c, param_name, "string", "Numeric value", g.group1),
             Placeholder(param_name))
      In(before) ==
        IF \E kw \in NumberContext : Contains(before, kw)
        THEN Put(make_param_name(IF Contains(g.group1, ".") THEN "threshold" ELSE "value",
                                 c.names))
        ELSE Emit(c, g.group0)
  IN In(Upper(SubSeq(g.string, IF g.start - 40 < 1 THEN 1 ELSE g.start - 40, g.start - 1)))

\* replacer of _parameterize_numbers; the sql of its closure is g.string
number_replacer(c, g) ==
  LET Put(param_name) ==
        Emit(add_param(c, param_name, "string", "Numeric value", g.group1),
             Placeholder(param_name))
      In(before) ==
        IF Contains(before, "LIMIT") \/ Contains(before, "OFFSET") THEN Emit(c, g.group0)
        ELSE IF \E kw \in NumberContext : Contains(before, kw)
        THEN Put(make_param_name(IF Contains(g.group1, ".") THEN "threshold" ELSE "value",
                                 c.names))
        ELSE Emit(c, g.group0)
  IN In(Upper(SubSeq(g.string, IF g.start - 40 < 1 THEN 1 ELSE g.start - 40, g.start - 1)))

RECURSIVE NumberScan(_, _, _)
NumberScan(s, i, c) ==
  LET Replace(g, b) == NumberScan(s, g.end, Tally(b, g, number_replacer(b, g)))
      Copy(g) == Replace(g, Emit(c, SubSeq(s, i, g.start - 1)))
      From(M) == IF M = {} THEN Emit(c, SubSeq(s, i, Len(s))) ELSE Copy(Leftmost(M))
  IN From(Matches({NumberMatch(s, j) : j \in i..Len(s)}))

\* SQLParameterizer._parameterize_numbers
parameterize_numbers(c) == NumberScan(c.out, 1, StartPass(c))

(***************************************************************************)
(* Pass 3: table names                                                     *)
(***************************************************************************)
TableKeywords == <<"FROM", "JOIN", "INTO", "UPDATE">>

\* replacer of _parameterize_tables_names
from_replacer(c, g) ==
  LET Put(param_name) ==
        Emit(add_param(c, param_name, "string", "Table name", g.group2),
             g.group1 \o " " \o Placeholder(param_name))
  IN IF Contains(g.group2, "(") \/ Upper(g.group2) \in {"SELECT", "VALUES"}
     THEN Emit(c, g.group0)
     ELSE Put(make_param_name("table", c.names))

\* the match of \b(kw)\s+([a-zA-Z_][\w]*) at i, ignoring case
TableKwMatch(s, i, kw) ==
  LET Found(b, e) == [start |-> i, end |-> e, group0 |-> SubSeq(s, i, e - 1),
                      group1 |-> SubSeq(s, i, i + Len(kw) - 1),
                      group2 |-> SubSeq(s, b, e - 1)]
      Name(a, b) == IF b > a /\ At(s, b) \in IdentStartChars
                    THEN Found(b, SkipWord(s, b)) ELSE NoMatch
  IN IF WordBoundary(s, i) /\ MatchKw(s, i, kw)
     THEN Name(i + Len(kw), SkipSpaces(s, i + Len(kw))) ELSE NoMatch

\* the matches of \b(FROM|JOIN|INTO|UPDATE)\s+([a-zA-Z_][\w]*) at i: at most one
\* keyword matches at a position
TableMatch(s, i) == {TableKwMatch(s, i, TableKeywords[k]) : k \in 1..Len(TableKeywords)}

RECURSIVE TableScan(_, _, _)
TableScan(s, i, c) ==
  LET Replace(g, b) == TableScan(s, g.end, Tally(b, g, from_replacer(b, g)))
      Copy(g) == Replace(g, Emit(c, SubSeq(s, i, g.start - 1)))
      From(M) == IF M = {} THEN Emit(c, SubSeq(s, i, Len(s))) ELSE Copy(Leftmost(M))
  IN From(Matches(UNION {TableMatch(s, j) : j \in i..Len(s)}))

\* SQLParameterizer._parameterize_tables_names
parameterize_tables_names(c) == TableScan(c.out, 1, StartPass(c))

(***************************************************************************)
(* Pass 4: SELECT column list                                              *)
(***************************************************************************)
\* end (exclusive) of a match of \s+(FROM)\b at q, else 0
SpaceFromEnd(s, q) ==
  LET f == SkipSpaces(s, q)
  IN IF IsSpace(s, q) /\ MatchKw(s, f, "FROM") /\ ~IsWord(s, f + 4) THEN f + 4 ELSE 0

\* the lazy (.*?): the first position at or after q where \s+(FROM)\b matches
FindSpaceFrom(s, q) == First({j \in q..Len(s) : SpaceFromEnd(s, j) # 0})

RECURSIVE SelectTry(_, _, _)
\* \s+ after SELECT gives back whitespace until the rest matches: p is the
\* start of group 2, a the position right after SELECT; 0 when nothing matches
SelectTry(s, p, a) ==
  IF p <= a THEN 0
  ELSE IF FindSpaceFrom(s, p) # 0 THEN p ELSE SelectTry(s, p - 1, a)

\* the match of \b(SELECT)\s+(.*?)\s+(FROM)\b at i (re.I | re.DOTALL)
SelectMatch(s, i) ==
  LET Found(p, q, e) ==
        [start |-> i, end |-> e, group0 |-> SubSeq(s, i, e - 1),
         group1 |-> SubSeq(s, i, i + 5), group2 |-> SubSeq(s, p, q - 1),
         group3 |-> SubSeq(s, e - 4, e - 1)]
      Columns(p, q) == Found(p, q, SpaceFromEnd(s, q))
      Start(p) == IF p = 0 THEN NoMatch ELSE Columns(p, FindSpaceFrom(s, p))
  IN IF WordBoundary(s, i) /\ MatchKw(s, i, "SELECT")
     THEN Start(SelectTry(s, SkipSpaces(s, i + 6), i + 6)) ELSE NoMatch

AggregateNames == {"COUNT", "SUM", "AVG", "MAX", "MIN", "GROUP_CONCAT", "DISTINCT"}

\* re.search(r'\b(COUNT|SUM|AVG|MAX|MIN|GROUP_CONCAT|DISTINCT)\s*\(', cs, re.I)
HasAggregateCall(cs) ==
  \E i \in 1..Len(cs) : \E kw \in AggregateNames :
     /\ WordBoundary(cs, i)
     /\ MatchKw(cs, i, kw)
     /\ At(cs, SkipSpaces(cs, i + Len(kw))) = "("

\* [c.strip() for c in columns]
StripAll(columns) == [k \in 1..Len(columns) |-> Strip(columns[k], SpaceChars)]

\* f"select_col_{i}" if i > 1 else "select_col", and the same for group_col
ColumnBase(base, i) == IF i > 1 THEN base \o "_" \o ToString(i) ELSE base

RECURSIVE SelectCols(_, _, _)
\* the column loop of select_replacer from the i-th column on; r holds the
\* accumulator c and the columns written so far
SelectCols(columns, i, r) ==
  LET Keep(col) == SelectCols(columns, i + 1, [r EXCEPT !.cols = Append(@, col)])
      Put(col, param_name) ==
        SelectCols(columns, i + 1,
          [c |-> add_param(r.c, param_name, "string", "Column to select", col),
           cols |-> Append(r.cols, Placeholder(param_name))])
  IN IF i > Len(columns) THEN r
     ELSE IF Contains(Upper(columns[i]), " AS ") \/ Contains(columns[i], ".")
     THEN Keep(columns[i])
     ELSE IF IsIdentifier(columns[i])
     THEN Put(columns[i], make_param_name(ColumnBase("select_col", i), r.c.names))
     ELSE Keep(columns[i])

\* replacer of _parameterize_select_columns
select_replacer(c, g) ==
  LET Done(r) == Emit(r.c, g.group1 \o " " \o Join(r.cols, ", ") \o " " \o g.group3)
  IN IF Strip(g.group2, SpaceChars) = "*" THEN Emit(c, g.group0)
     ELSE IF HasAggregateCall(g.group2) THEN Emit(c, g.group0)
     ELSE Done(SelectCols(StripAll(Split(g.group2, ",")), 1, [c |-> c, cols |-> <<>>]))

RECURSIVE SelectScan(_, _, _)
SelectScan(s, i, c) ==
  LET Replace(g, b) == SelectScan(s, g.end, Tally(b, g, select_replacer(b, g)))
      Copy(g) == Replace(g, Emit(c, SubSeq(s, i, g.start - 1)))
      From(M) == IF M = {} THEN Emit(c, SubSeq(s, i, Len(s))) ELSE Copy(Leftmost(M))
  IN From(Matches({SelectMatch(s, j) : j \in i..Len(s)}))

\* SQLParameterizer._parameterize_select_columns
parameterize_select_columns(c) == SelectScan(c.out, 1, StartPass(c))

(***************************************************************************)
(* Pass 5: WHERE columns                                                   *)
(***************************************************************************)
\* end (exclusive) of the literal lit at i, else 0
LitEnd(s, i, lit) ==
  IF i + Len(lit) - 1 <= Len(s) /\ SubSeq(s, i, i + Len(lit) - 1) = lit
  THEN i + Len(lit) ELSE 0

\* end (exclusive) of kw1\s+kw2 at i, ignoring case, else 0
TwoWordEnd(s, i, kw1, kw2) ==
  LET b == SkipSpaces(s, i + Len(kw1))
  IN IF MatchKw(s, i, kw1) /\ b > i + Len(kw1) /\ MatchKw(s, b, kw2)
     THEN b + Len(kw2) ELSE 0

\* the alternatives of the operator group, in the order the regex lists them:
\* =|!=|<>|>=|<=|>|<|IN|NOT\s+IN|LIKE|NOT\s+LIKE|IS|IS\s+NOT
WhereOps == <<<<"=">>, <<"!=">>, <<"<>">>, <<">=">>, <<"<=">>, <<">">>, <<"<">>,
              <<"IN">>, <<"NOT", "IN">>, <<"LIKE">>, <<"NOT", "LIKE">>, <<"IS">>,
              <<"IS", "NOT">>>>

\* end (exclusive) of the k-th alternative at i, else 0
WhereOpEnd(s, i, k) ==
  IF Len(WhereOps[k]) = 2 THEN TwoWordEnd(s, i, WhereOps[k][1], WhereOps[k][2])
  ELSE IF MatchKw(s, i, WhereOps[k][1]) THEN i + Len(WhereOps[k][1]) ELSE 0

\* the k-th alternative matches at i and the trailing \b of the pattern holds
WhereOpOk(s, i, k) ==
  LET Bounded(e) == e # 0 /\ WordBoundary(s, e)
  IN Bounded(WhereOpEnd(s, i, k))

\* end (exclusive) of the operator of the WHERE pattern at i, else 0: the
\* first alternative after which the trailing \b holds
WhereOperatorEnd(s, i) ==
  LET Chosen(k) == IF k = 0 THEN 0 ELSE WhereOpEnd(s, i, k)
  IN Chosen(First({k \in 1..Len(WhereOps) : WhereOpOk(s, i, k)}))

\* the match of \b(WHERE)\s+([a-zA-Z_][\w\.]*)\s+(operator)\b at i (re.I)
WhereMatch(s, i) ==
  LET b == SkipSpaces(s, i + 5)
      e1 == SkipWordDot(s, b + 1)
      o == SkipSpaces(s, e1)
      Found(e) ==
        IF e = 0 THEN NoMatch
        ELSE [start |-> i, end |-> e, group0 |-> SubSeq(s, i, e - 1),
              group1 |-> SubSeq(s, i, i + 4), group2 |-> SubSeq(s, b, e1 - 1),
              group3 |-> SubSeq(s, o, e - 1)]
  IN IF /\ WordBoundary(s, i) /\ MatchKw(s, i, "WHERE")
        /\ b > i + 5 /\ At(s, b) \in IdentStartChars
        /\ o > e1
     THEN Found(WhereOperatorEnd(s, o)) ELSE NoMatch

\* replacer of _parameterize_where_columns
where_replacer(c, g) ==
  LET Put(col_name, prefix, param_name) ==
        Emit(add_param(c, param_name, "string", "Column to filter on", col_name),
             g.group1 \o " " \o prefix \o Placeholder(param_name) \o " " \o g.group3)
      Dotted(parts) ==
        IF Len(parts) = 2
        THEN Put(parts[2], parts[1] \o ".", make_param_name("where_col", c.names))
        ELSE Emit(c, g.group0)
  IN IF Contains(g.group2, "{{.") THEN Emit(c, g.group0)
     ELSE IF Contains(g.group2, "(") THEN Emit(c, g.group0)
     ELSE IF Contains(g.group2, ".") THEN Dotted(Split(g.group2, "."))
     ELSE IF IsIdentifier(g.group2)
     THEN Put(g.group2, "", make_param_name("where_col", c.names))
     ELSE Emit(c, g.group0)

RECURSIVE WhereScan(_, _, _)
WhereScan(s, i, c) ==
  LET Replace(g, b) == WhereScan(s, g.end, Tally(b, g, where_replacer(b, g)))
      Copy(g) == Replace(g, Emit(c, SubSeq(s, i, g.start - 1)))
      From(M) == IF M = {} THEN Emit(c, SubSeq(s, i, Len(s))) ELSE Copy(Leftmost(M))
  IN From(Matches({WhereMatch(s, j) : j \in i..Len(s)}))

\* SQLParameterizer._parameterize_where_columns
parameterize_where_columns(c) == WhereScan(c.out, 1, StartPass(c))

(***************************************************************************)
(* Pass 6: JOIN ... ON columns                                             *)
(***************************************************************************)
\* the alternatives of the operator group in pattern order: =|!=|<>|>=|<=|>|<
JoinOps == <<"=", "!=", "<>", ">=", "<=", ">", "<">>

\* start of group 4 when the k-th operator matches at o and \s*([a-zA-Z_][\w\.]+)
\* follows it, else 0
JoinRightStart(s, o, k) ==
  LET r == SkipSpaces(s, LitEnd(s, o, JoinOps[k]))
  IN IF /\ LitEnd(s, o, JoinOps[k]) # 0
        /\ At(s, r) \in IdentStartChars
        /\ (IsWord(s, r + 1) \/ At(s, r + 1) = ".")
     THEN r ELSE 0

\* the first alternative with which the rest of the ON pattern matches, 0 if none
JoinOpIndex(s, o) == First({k \in 1..Len(JoinOps) : JoinRightStart(s, o, k) # 0})

\* the match of \b(ON)\s+([a-zA-Z_][\w\.]+)\s*(op)\s*([a-zA-Z_][\w\.]+) at i
JoinMatch(s, i) ==
  LET b == SkipSpaces(s, i + 2)
      e1 == SkipWordDot(s, b + 1)
      o == SkipSpaces(s, e1)
      Found(k, r, e) ==
        [start |-> i, end |-> e, group0 |-> SubSeq(s, i, e - 1),
         group1 |-> SubSeq(s, i, i + 1), group2 |-> SubSeq(s, b, e1 - 1),
         group3 |-> JoinOps[k], group4 |-> SubSeq(s, r, e - 1)]
      Right(k, r) == Found(k, r, SkipWordDot(s, r + 1))
      Operator(k) == IF k = 0 THEN NoMatch ELSE Right(k, JoinRightStart(s, o, k))
  IN IF /\ WordBoundary(s, i) /\ MatchKw(s, i, "ON")
        /\ b > i + 2 /\ At(s, b) \in IdentStartChars
        /\ e1 > b + 1
     THEN Operator(JoinOpIndex(s, o)) ELSE NoMatch

\* one side of join_replacer: the accumulator and the rewritten side
join_side(c, col) ==
  LET Put(col_name, prefix, param_name) ==
        [c |-> add_param(c, param_name, "string", "Column to join on", col_name),
         text |-> prefix \o Placeholder(param_name)]
      Dotted(parts) ==
        IF Len(parts) = 2
        THEN Put(parts[2], parts[1] \o ".", make_param_name("join_col", c.names))
        ELSE [c |-> c, text |-> col]
  IN IF Contains(col, ".") THEN Dotted(Split(col, "."))
     ELSE IF IsIdentifier(col) THEN Put(col, "", make_param_name("join_col", c.names))
     ELSE [c |-> c, text |-> col]

\* replacer of _parameterize_join_columns
join_replacer(c, g) ==
  LET Both(l, r) ==
        Emit(r.c, g.group1 \o " " \o l.text \o " " \o g.group3 \o " " \o r.text)
      Left(l) == Both(l, join_side(l.c, g.group4))
  IN IF Contains(g.group2, "{{.") \/ Contains(g.group4, "{{.") THEN Emit(c, g.group0)
     ELSE Left(join_side(c, g.group2))

RECURSIVE JoinScan(_, _, _)
JoinScan(s, i, c) ==
  LET Replace(g, b) == JoinScan(s, g.end, Tally(b, g, join_replacer(b, g)))
      Copy(g) == Replace(g, Emit(c, SubSeq(s, i, g.start - 1)))
      From(M) == IF M = {} THEN Emit(c, SubSeq(s, i, Len(s))) ELSE Copy(Leftmost(M))
  IN From(Matches({JoinMatch(s, j) : j \in i..Len(s)}))

\* SQLParameterizer._parameterize_join_columns
parameterize_join_columns(c) == JoinScan(c.out, 1, StartPass(c))

(***************************************************************************)
(* Pass 7: GROUP BY columns                                                *)
(***************************************************************************)
GroupStops == {"ORDER", "HAVING", "LIMIT"}

\* the lookahead (?=\s+(?:ORDER|HAVING|LIMIT|;|$)) at q
GroupLookahead(s, q) ==
  LET f == SkipSpaces(s, q)
  IN /\ IsSpace(s, q)
     /\ \/ f = Len(s) + 1
        \/ At(s, f) = ";"
        \/ \E kw \in GroupStops : MatchKw(s, f, kw)

\* the lazy ([^;]+?) for a group 2 that starts at p: the first q > p where the
\* lookahead matches, provided no ';' lies in p..q-1; 0 when there is none
FindGroupEnd(s, p) ==
  LET Clean(q) == IF q # 0 /\ \A k \in p..(q - 1) : At(s, k) # ";" THEN q ELSE 0
  IN Clean(First({j \in (p + 1)..Len(s) : GroupLookahead(s, j)}))

RECURSIVE GroupTry(_, _, _)
\* \s+ after GROUP BY gives back whitespace until the rest matches: p is the
\* start of group 2, a the position right after BY; 0 when nothing matches
GroupTry(s, p, a) ==
  IF p <= a THEN 0
  ELSE IF FindGroupEnd(s, p) # 0 THEN p ELSE GroupTry(s, p - 1, a)

\* the match of \b(GROUP\s+BY)\s+([^;]+?)(?=\s+(?:ORDER|HAVING|LIMIT|;|$)) at i
GroupMatch(s, i) ==
  LET Found(a, p, q) ==
        [start |-> i, end |-> q, group0 |-> SubSeq(s, i, q - 1),
         group1 |-> SubSeq(s, i, a - 1), group2 |-> SubSeq(s, p, q - 1)]
      Start(a, p) == IF p = 0 THEN NoMatch ELSE Found(a, p, FindGroupEnd(s, p))
      Keyword(a) == IF a = 0 THEN NoMatch ELSE Start(a, GroupTry(s, SkipSpaces(s, a), a))
  IN IF WordBoundary(s, i) THEN Keyword(TwoWordEnd(s, i, "GROUP", "BY")) ELSE NoMatch

RECURSIVE GroupCols(_, _, _)
\* the column loop of group_replacer from the i-th column on
GroupCols(columns, i, r) ==
  LET Keep(col) == GroupCols(columns, i + 1, [r EXCEPT !.cols = Append(@, col)])
      Put(col_name, prefix, param_name) ==
        GroupCols(columns, i + 1,
          [c |-> add_param(r.c, param_name, "string", "Column to group by", col_name),
           cols |-> Append(r.cols, prefix \o Placeholder(param_name))])
      Dotted(col, parts) ==
        IF Len(parts) = 2
        THEN Put(parts[2], parts[1] \o ".",
                 make_param_name(ColumnBase("group_col", i), r.c.names))
        ELSE Keep(col)
  IN IF i > Len(columns) THEN r
     ELSE IF Contains(columns[i], "(") THEN Keep(columns[i])
     ELSE IF Contains(columns[i], ".") THEN Dotted(columns[i], Split(columns[i], "."))
     ELSE IF IsIdentifier(columns[i])
     THEN Put(columns[i], "", make_param_name(ColumnBase("group_col", i), r.c.names))
     ELSE Keep(columns[i])

\* group_replacer without the "already parameterized" return of lines 228-229
group_replacer_unguarded(c, g) ==
  LET Written(r) == Emit(r.c, g.group1 \o " " \o Join(r.cols, ", "))
  IN Written(GroupCols(StripAll(Split(g.group2, ",")), 1, [c |-> c, cols |-> <<>>]))

\* replacer of _parameterize_group_by
group_replacer(c, g) ==
  LET Done(r) == Emit(r.c, g.group1 \o " " \o Join(r.cols, ", "))
  IN IF Contains(g.group2, "{{.") THEN Emit(c, g.group0)
     ELSE Done(GroupCols(StripAll(Split(g.group2, ",")), 1, [c |-> c, cols |-> <<>>]))

RECURSIVE GroupScan(_, _, _)
GroupScan(s, i, c) ==
  LET Replace(g, b) == GroupScan(s, g.end, Tally(b, g, group_replacer(b, g)))
      Copy(g) == Replace(g, Emit(c, SubSeq(s, i, g.start - 1)))
      From(M) == IF M = {} THEN Emit(c, SubSeq(s, i, Len(s))) ELSE Copy(Leftmost(M))
  IN From(Matches({GroupMatch(s, j) : j \in i..Len(s)}))

\* SQLParameterizer._parameterize_group_by
parameterize_group_by(c) == GroupScan(c.out, 1, StartPass(c))

(***************************************************************************)
(* Pass 8: LIMIT, OFFSET, ORDER BY                                         *)
(***************************************************************************)
\* the match of \bKW\s+(\d+) at i for the keyword kw (re.I)
CountMatch(s, i, kw) ==
  LET b == SkipSpaces(s, i + Len(kw))
      Found(e) == [start |-> i, end |-> e, group0 |-> SubSeq(s, i, e - 1),
                   group1 |-> SubSeq(s, b, e - 1)]
  IN IF /\ WordBoundary(s, i) /\ MatchKw(s, i, kw)
        /\ b > i + Len(kw) /\ IsDigit(s, b)
     THEN Found(SkipDigits(s, b)) ELSE NoMatch

\* limit_replacer
limit_replacer(c, g) ==
  IF Contains(g.group1, "{{.") THEN Emit(c, g.group0)
  ELSE Emit(add_param(c, "limit_n", "string", "Maximum number of rows", g.group1),
            "LIMIT " \o Placeholder("limit_n"))

\* offset_replacer
offset_replacer(c, g) ==
  IF Contains(g.group1, "{{.") THEN Emit(c, g.group0)
  ELSE Emit(add_param(c, "offset_n", "string", "Number of rows to skip", g.group1),
            "OFFSET " \o Placeholder("offset_n"))

RECURSIVE LimitScan(_, _, _)
\* re.sub(r'\bLIMIT\s+(\d+)', limit_replacer, sql, flags=re.I)
LimitScan(s, i, c) ==
  LET Replace(g, b) == LimitScan(s, g.end, Tally(b, g, limit_replacer(b, g)))
      Copy(g) == Replace(g, Emit(c, SubSeq(s, i, g.start - 1)))
      From(M) == IF M = {} THEN Emit(c, SubSeq(s, i, Len(s))) ELSE Copy(Leftmost(M))
  IN From(Matches({CountMatch(s, j, "LIMIT") : j \in i..Len(s)}))

RECURSIVE OffsetScan(_, _, _)
\* re.sub(r'\bOFFSET\s+(\d+)', offset_replacer, sql, flags=re.I)
OffsetScan(s, i, c) ==
  LET Replace(g, b) == OffsetScan(s, g.end, Tally(b, g, offset_replacer(b, g)))
      Copy(g) == Replace(g, Emit(c, SubSeq(s, i, g.start - 1)))
      From(M) == IF M = {} THEN Emit(c, SubSeq(s, i, Len(s))) ELSE Copy(Leftmost(M))
  IN From(Matches({CountMatch(s, j, "OFFSET") : j \in i..Len(s)}))

\* end (exclusive) of group 1, [a-zA-Z_][\w\.]*(?:\([^)]*\))?, that starts at b
OrderExprEnd(s, b) ==
  LET e1 == SkipWordDot(s, b + 1)
      Call(close) == IF close # 0 THEN close + 1 ELSE e1
  IN IF At(s, e1) = "(" THEN Call(FindCh(s, ")", e1 + 1)) ELSE e1

\* length of group 2, (ASC|DESC)?, at d: 0 when it takes no part in the match
OrderDirLen(s, d) ==
  IF MatchKw(s, d, "ASC") THEN 3 ELSE IF MatchKw(s, d, "DESC") THEN 4 ELSE 0

\* the match of \bORDER\s+BY\s+([a-zA-Z_][\w\.]*(?:\([^)]*\))?)\s*(ASC|DESC)? at i
OrderMatch(s, i) ==
  LET Found(b, e2, d, e) ==
        [start |-> i, end |-> e, group0 |-> SubSeq(s, i, e - 1),
         group1 |-> SubSeq(s, b, e2 - 1), group2 |-> SubSeq(s, d, e - 1),
         lastindex |-> IF e > d THEN 2 ELSE 1]
      Direction(b, e2, d) == Found(b, e2, d, d + OrderDirLen(s, d))
      Expr(b, e2) == Direction(b, e2, SkipSpaces(s, e2))
      By(a, b) == IF b > a /\ At(s, b) \in IdentStartChars
                  THEN Expr(b, OrderExprEnd(s, b)) ELSE NoMatch
      Keyword(a) == IF a = 0 THEN NoMatch ELSE By(a, SkipSpaces(s, a))
  IN IF WordBoundary(s, i) THEN Keyword(TwoWordEnd(s, i, "ORDER", "BY")) ELSE NoMatch

\* order_replacer that leaves a clause with a function call wholly as it is
order_replacer_call_untouched(c, g) ==
  LET Column(expr, direction) ==
        IF Contains(expr, "{{.") \/ (Contains(expr, "(") /\ Contains(expr, ")"))
        THEN Emit(c, g.group0)
        ELSE IF direction # "" /\ Strip(direction, SpaceChars) # ""
        THEN Emit(add_param(add_param(c, "order_col", "string", "Column to order by", expr),
                            "order_dir", "string", "Sort direction (ASC/DESC)",
                            Strip(direction, SpaceChars)),
                  "ORDER BY " \o Placeholder("order_col") \o " "
                              \o Placeholder("order_dir"))
        ELSE Emit(add_param(c, "order_col", "string", "Column to order by", expr),
                  "ORDER BY " \o Placeholder("order_col"))
  IN Column(Strip(g.group1, SpaceChars), IF g.lastindex >= 2 THEN g.group2 ELSE "")

\* order_replacer
order_replacer(c, g) ==
  LET Column(expr, direction) ==
        IF Contains(expr, "{{.") THEN Emit(c, g.group0)
        ELSE IF Contains(expr, "(") /\ Contains(expr, ")")
        THEN IF direction # "" /\ Strip(direction, SpaceChars) # ""
             THEN Emit(add_param(c, "order_dir", "string", "Sort direction (ASC/DESC)",
                                 Strip(direction, SpaceChars)),
                       "ORDER BY " \o expr \o " " \o Placeholder("order_dir"))
             ELSE Emit(c, g.group0)
        ELSE IF direction # "" /\ Strip(direction, SpaceChars) # ""
        THEN Emit(add_param(add_param(c, "order_col", "string", "Column to order by", expr),
                            "order_dir", "string", "Sort direction (ASC/DESC)",
                            Strip(direction, SpaceChars)),
                  "ORDER BY " \o Placeholder("order_col") \o " "
                              \o Placeholder("order_dir"))
        ELSE Emit(add_param(c, "order_col", "string", "Column to order by", expr),
                  "ORDER BY " \o Placeholder("order_col"))
  IN Column(Strip(g.group1, SpaceChars), IF g.lastindex >= 2 THEN g.group2 ELSE "")

RECURSIVE OrderScan(_, _, _)
\* re.sub of the ORDER BY pattern
OrderScan(s, i, c) ==
  LET Replace(g, b) == OrderScan(s, g.end, Tally(b, g, order_replacer(b, g)))
      Copy(g) == Replace(g, Emit(c, SubSeq(s, i, g.start - 1)))
      From(M) == IF M = {} THEN Emit(c, SubSeq(s, i, Len(s))) ELSE Copy(Leftmost(M))
  IN From(Matches({OrderMatch(s, j) : j \in i..Len(s)}))

\* SQLParameterizer._parameterize_special_clauses
parameterize_special_clauses(c) ==
  LET Order(o) == OrderScan(o.out, 1, StartPass(o))
      Offset(l) == Order(OffsetScan(l.out, 1, StartPass(l)))
  IN Offset(LimitScan(c.out, 1, StartPass(c)))

(***************************************************************************)
(* parameterize(): the fixed sequence of passes                            *)
(***************************************************************************)
\* "not sql" alone: whitespace-only text is not taken as blank
IsBlank_empty(sql) == sql = ""

\* "not sql or not sql.strip()"
IsBlank(sql) == Strip(sql, SpaceChars) = ""

\* the table pass run whatever the flag says
TablesPass_ungated(c, fl) == parameterize_tables_names(c)

\* lines 60-61: the table pass runs when the flag allows it
TablesPass(c, fl) == IF fl.parameterize_tables THEN parameterize_tables_names(c) ELSE c

\* lines 64-65
SelectPass(c, fl) ==
  IF fl.parameterize_columns THEN parameterize_select_columns(c) ELSE c

\* lines 68-69
WherePass(c, fl) == IF fl.parameterize_columns THEN parameterize_where_columns(c) ELSE c

\* lines 72-73
JoinPass(c, fl) == IF fl.parameterize_columns THEN parameterize_join_columns(c) ELSE c

\* the list and the registry of a newly constructed instance (lines 14-15),
\* with the text sql to work on
NewAcc(sql) == [out |-> sql, params |-> <<>>, names |-> {}, rewrites |-> 0]

\* what parameterize(sql) returns on a newly constructed SQLParameterizer with
\* the flags fl
FreshParameterize(sql, fl) ==
  LET Result(c) == [sql |-> c.out, params |-> c.params]
  IN IF IsBlank(sql) THEN [sql |-> sql, params |-> <<>>]
     ELSE Result(
            parameterize_special_clauses(
              parameterize_group_by(
                JoinPass(
                  WherePass(
                    SelectPass(
                      TablesPass(
                        parameterize_numbers(parameterize_strings(NewAcc(sql))), fl),
                      fl),
                    fl),
                  fl))))

(***************************************************************************)
(* Placeholder tokens of a SQL text                                        *)
(***************************************************************************)
\* end (exclusive) of a match of \{\{\.(\w+)\}\} at i, else 0
PlaceholderEnd(s, i) ==
  IF LitEnd(s, i, "{{.") = 0 THEN 0
  ELSE LET w == SkipWord(s, i + 3)
       IN IF w > i + 3 THEN LitEnd(s, w, "}}") ELSE 0

\* the positions where a placeholder token starts (tokens cannot overlap)
PlaceholderSites(s) == {i \in 1..Len(s) : PlaceholderEnd(s, i) # 0}

\* the name written in the token that starts at i
PlaceholderNameAt(s, i) == SubSeq(s, i + 3, PlaceholderEnd(s, i) - 3)

\* set(re.findall(r'\{\{\.(\w+)\}\}', sql))
PlaceholderNames(s) == {PlaceholderNameAt(s, i) : i \in PlaceholderSites(s)}

RECURSIVE RemovePlaceholders(_, _)
\* re.sub(r'\{\{\.[\w]+\}\}', '', sql) from position i on
RemovePlaceholders(s, i) ==
  LET Cut(m) == IF m = 0 THEN SubSeq(s, i, Len(s))
                ELSE SubSeq(s, i, m - 1) \o RemovePlaceholders(s, PlaceholderEnd(s, m))
  IN Cut(First({j \in i..Len(s) : PlaceholderEnd(s, j) # 0}))

(***************************************************************************)
(* Quality scorer (src/src/quality.py)                                     *)
(***************************************************************************)
MinInt(a, b) == IF a < b THEN a ELSE b
MaxInt(a, b) == IF a > b THEN a ELSE b

\* the semantic category calculate_parameter_score infers from a parameter
\* name, "" when the name falls in none
ParamCategory(pname) ==
  LET Of(name) ==
        IF Contains(name, "table") THEN "table"
        ELSE IF Contains(name, "col") \/ Contains(name, "column") THEN "column"
        ELSE IF Contains(name, "value") \/ Contains(name, "threshold") THEN "value"
        ELSE IF Contains(name, "limit") \/ Contains(name, "offset") THEN "pagination"
        ELSE IF Contains(name, "order") \/ Contains(name, "sort") THEN "sorting"
        ELSE IF \/ Contains(name, "where") \/ Contains(name, "filter")
                \/ Contains(name, "join") \/ Contains(name, "group") THEN "filter"
        ELSE ""
  IN Of(Lower(pname))

\* calculate_parameter_score
calculate_parameter_score(params) ==
  IF Len(params) = 0 THEN 0
  ELSE LET param_count == Len(params)
           count_pts == IF param_count >= 5 THEN 15
                        ELSE IF param_count >= 3 THEN 10 ELSE 5
           param_types == {ParamCategory(params[k].name) : k \in 1..Len(params)} \ {""}
           type_set == {params[k].type : k \in 1..Len(params)}
       IN MinInt(count_pts + MinInt(Cardinality(param_types) * 3, 15)
                           + MinInt(Cardinality(type_set) * 5, 10), 40)

AggregateCalls == {"COUNT(", "SUM(", "AVG(", "MAX(", "MIN("}

\* calculate_complexity_score without the cap of line 88
calculate_complexity_score_uncapped(sql) ==
  (IF Contains(Upper(sql), "SELECT") THEN 5 ELSE 0)
    + (IF Contains(Upper(sql), "JOIN")
       THEN 8 + MinInt(Count(Upper(sql), "JOIN") - 1, 2) * 2 ELSE 0)
    + (IF Contains(Upper(sql), "GROUP BY") THEN 7 ELSE 0)
    + (IF \E agg \in AggregateCalls : Contains(Upper(sql), agg) THEN 5 ELSE 0)
    + (IF Contains(Upper(sql), "WHERE") THEN 2 ELSE 0)
    + (IF Contains(Upper(sql), "HAVING") THEN 3 ELSE 0)
    + (IF Count(sql, "SELECT") > 1 THEN 5 ELSE 0)
    + (IF Contains(Upper(sql), "DISTINCT") THEN 2 ELSE 0)

\* calculate_complexity_score
calculate_complexity_score(sql) ==
  LET sql_upper == Upper(sql)
      join_count == Count(sql_upper, "JOIN")
  IN MinInt((IF Contains(sql_upper, "SELECT") THEN 5 ELSE 0)
            + (IF Contains(sql_upper, "JOIN")
               THEN 8 + MinInt(join_count - 1, 2) * 2 ELSE 0)
            + (IF Contains(sql_upper, "GROUP BY") THEN 7 ELSE 0)
            + (IF \E agg \in AggregateCalls : Contains(sql_upper, agg) THEN 5 ELSE 0)
            + (IF Contains(sql_upper, "WHERE") THEN 2 ELSE 0)
            + (IF Contains(sql_upper, "HAVING") THEN 3 ELSE 0)
            + (IF Count(sql, "SELECT") > 1 THEN 5 ELSE 0)
            + (IF Contains(sql_upper, "DISTINCT") THEN 2 ELSE 0), 30)

DescriptionKeywords == {"how many", "what", "which", "list", "show", "return", "find",
                        "calculate", "count", "average", "maximum", "minimum", "total"}

\* calculate_description_score; question is a string
calculate_description_score(question, sql) ==
  IF question = "" THEN 0
  ELSE LET len_pts == IF Len(question) >= 100 THEN 10
                      ELSE IF Len(question) >= 50 THEN 7
                      ELSE IF Len(question) >= 20 THEN 4 ELSE 2
           q == Lower(question)
           keyword_count == Cardinality({kw \in DescriptionKeywords : Contains(q, kw)})
       IN MinInt(len_pts + MinInt(keyword_count * 2, 10), 20)

\* re.search of q[^q]{2,}q: a quote whose next quote lies at least 3 further
HasQuotedLiteral(s, q) ==
  \E i \in 1..Len(s) : At(s, i) = q /\ FindCh(s, q, i + 1) >= i + 3

\* re.search(r'\b\d{2,}\b', s)
HasLongNumber(s) ==
  \E i \in 1..Len(s) :
     /\ IsDigit(s, i) /\ WordBoundary(s, i)
     /\ SkipDigits(s, i) >= i + 2
     /\ ~IsWord(s, SkipDigits(s, i))

\* re.search(r'\bFROM\s+[a-zA-Z_]\w+(?!\s*\()', s): case-sensitive FROM; the
\* \w+ gives back characters until the negative lookahead holds
HasFixedFrom(s) ==
  \E i \in 1..Len(s) :
     /\ WordBoundary(s, i) /\ LitEnd(s, i, "FROM") # 0
     /\ LET b == SkipSpaces(s, i + 4)
            e == SkipWord(s, b)
        IN /\ b > i + 4
           /\ At(s, b) \in IdentStartChars
           /\ e >= b + 2
           /\ (e >= b + 3 \/ At(s, SkipSpaces(s, e)) # "(")

\* calculate_reusability_score
calculate_reusability_score(sql, params) ==
  MaxInt(10 - (IF HasQuotedLiteral(sql, "'") \/ HasQuotedLiteral(sql, "\"") THEN 3 ELSE 0)
            - (IF HasLongNumber(RemovePlaceholders(sql, 1)) THEN 2 ELSE 0)
            - (IF HasFixedFrom(sql) /\ ~Contains(sql, "{{.table") THEN 2 ELSE 0), 0)

\* calculate_tool_quality_score: the score and its breakdown
calculate_tool_quality_score(sql, params, question) ==
  LET Total(b) == [score |-> b.parameters + b.complexity + b.description + b.reusability,
                   breakdown |-> b]
  IN Total([parameters |-> calculate_parameter_score(params),
            complexity |-> calculate_complexity_score(sql),
            description |-> calculate_description_score(question, sql),
            reusability |-> calculate_reusability_score(sql, params)])

(***************************************************************************)
(* Validator (src/src/validation.py)                                       *)
(***************************************************************************)
\* the "too simple" pattern matched without re.I: upper-case keywords only
IsTooSimple_cased(sql) ==
  LET a == SkipSpaces(sql, 1)
      b == SkipSpaces(sql, a + 6)
      c == SkipSpaces(sql, b + 1)
      d == SkipSpaces(sql, c + 4)
      e == SkipWord(sql, d)
      f == SkipSpaces(sql, e)
      g == IF At(sql, f) = ";" THEN SkipSpaces(sql, f + 1) ELSE f
  IN /\ LitEnd(sql, a, "SELECT") # 0
     /\ b > a + 6 /\ At(sql, b) = "*"
     /\ c > b + 1 /\ LitEnd(sql, c, "FROM") # 0
     /\ d > c + 4 /\ e > d
     /\ g = Len(sql) + 1

\* re.match(r'^\s*SELECT\s+\*\s+FROM\s+\w+\s*;?\s*$', sql, re.I)
IsTooSimple(sql) ==
  LET a == SkipSpaces(sql, 1)
      b == SkipSpaces(sql, a + 6)
      c == SkipSpaces(sql, b + 1)
      d == SkipSpaces(sql, c + 4)
      e == SkipWord(sql, d)
      f == SkipSpaces(sql, e)
      g == IF At(sql, f) = ";" THEN SkipSpaces(sql, f + 1) ELSE f
  IN /\ MatchKw(sql, a, "SELECT")
     /\ b > a + 6 /\ At(sql, b) = "*"
     /\ c > b + 1 /\ MatchKw(sql, c, "FROM")
     /\ d > c + 4 /\ e > d
     /\ g = Len(sql) + 1

\* f"{v:.1f}" of a score component; the components are whole numbers
Fmt1(v) == ToString(v) \o ".0"

\* the message of the threshold check
LowScoreMessage(q) ==
  "Quality score too low: " \o Fmt1(q.score) \o "/100 (parameters="
     \o Fmt1(q.breakdown.parameters) \o ", complexity=" \o Fmt1(q.breakdown.complexity)
     \o ", description=" \o Fmt1(q.breakdown.description)
     \o ", reusability=" \o Fmt1(q.breakdown.reusability) \o ")"

\* "not question or not isinstance(question, str) or len(question) < 5"; a
\* question is [isstr, truthy, text]: a str carries its text, any other value
\* (None, a number) only its truth value
QuestionRejected(question) ==
  \/ ~question.truthy
  \/ ~question.isstr
  \/ Len(question.text) < 5

Verdict(ok, msg, score) == [is_valid |-> ok, msg |-> msg, score |-> score]

\* the tail of validate_tool_advanced: the question check and the threshold
\* (lines 37-49)
DescriptionAndScore(sql, params, question, min_score) ==
  LET Threshold(q) ==
        IF q.score < min_score THEN Verdict(FALSE, LowScoreMessage(q), q.score)
        ELSE Verdict(TRUE, "", q.score)
  IN IF QuestionRejected(question) THEN Verdict(FALSE, "No meaningful description", 0)
     ELSE Threshold(calculate_tool_quality_score(sql, params, question.text))

\* validate_tool_advanced with the "too simple" check moved before the
\* parameter-count check
validate_simple_first(sql, params, question, min_score) ==
  IF IsBlank(sql) THEN Verdict(FALSE, "Empty SQL", 0)
  ELSE IF IsTooSimple(sql)
  THEN Verdict(FALSE, "Too simple - just SELECT * FROM table", 0)
  ELSE IF Len(params) < 1 THEN Verdict(FALSE, "No parameters - not reusable", 0)
  ELSE IF PlaceholderNames(sql) = {}
  THEN Verdict(FALSE, "Parameters defined but not used in SQL", 0)
  ELSE DescriptionAndScore(sql, params, question, min_score)

\* validate_tool_advanced without the placeholder check of lines 33-35
validate_no_placeholder_check(sql, params, question, min_score) ==
  IF IsBlank(sql) THEN Verdict(FALSE, "Empty SQL", 0)
  ELSE IF Len(params) < 1 THEN Verdict(FALSE, "No parameters - not reusable", 0)
  ELSE IF IsTooSimple(sql)
  THEN Verdict(FALSE, "Too simple - just SELECT * FROM table", 0)
  ELSE DescriptionAndScore(sql, params, question, min_score)

\* validate_tool_advanced without the parameter-count check of lines 25-26
validate_no_count_check(sql, params, question, min_score) ==
  IF IsBlank(sql) THEN Verdict(FALSE, "Empty SQL", 0)
  ELSE IF IsTooSimple(sql)
  THEN Verdict(FALSE, "Too simple - just SELECT * FROM table", 0)
  ELSE IF PlaceholderNames(sql) = {}
  THEN Verdict(FALSE, "Parameters defined but not used in SQL", 0)
  ELSE DescriptionAndScore(sql, params, question, min_score)

\* validate_tool_advanced(sql, params, question, min_score)
validate_tool_advanced(sql, params, question, min_score) ==
  IF IsBlank(sql) THEN Verdict(FALSE, "Empty SQL", 0)
  ELSE IF Len(params) < 1 THEN Verdict(FALSE, "No parameters - not reusable", 0)
  ELSE IF IsTooSimple(sql)
  THEN Verdict(FALSE, "Too simple - just SELECT * FROM table", 0)
  ELSE IF PlaceholderNames(sql) = {}
  THEN Verdict(FALSE, "Parameters defined but not used in SQL", 0)
  ELSE DescriptionAndScore(sql, params, question, min_score)

(***************************************************************************)
(* Labeler (src/src/labels.py) and name generator (src/src/utils.py)       *)
(***************************************************************************)
\* Python's s.startswith(p)
StartsWith(s, p) == Len(s) >= Len(p) /\ SubSeq(s, 1, Len(p)) = p

\* re.search(r'\b(kw1|kw2|...)\s*\(', s, re.I) for the keywords kws
HasCall(s, kws) ==
  \E i \in 1..Len(s) : \E kw \in kws :
     /\ WordBoundary(s, i)
     /\ MatchKw(s, i, kw)
     /\ At(s, SkipSpaces(s, i + Len(kw))) = "("

\* re.search(r'\bkw\b', s, re.I)
HasWord(s, kw) ==
  \E i \in 1..Len(s) :
     WordBoundary(s, i) /\ MatchKw(s, i, kw) /\ WordBoundary(s, i + Len(kw))

\* re.search(r'\bkw1\s+kw2\b', s, re.I)
HasWordPair(s, kw1, kw2) ==
  \E i \in 1..Len(s) :
     /\ WordBoundary(s, i)
     /\ TwoWordEnd(s, i, kw1, kw2) # 0
     /\ WordBoundary(s, TwoWordEnd(s, i, kw1, kw2))

RECURSIVE Chosen(_, _)
\* a run of "if test: list.append(tag)" statements: from the i-th pair
\* <<tag, test>> on, the tags whose test holds, in the order of the pairs
Chosen(tests, i) ==
  IF i > Len(tests) THEN <<>>
  ELSE (IF tests[i][2] THEN <<tests[i][1]>> ELSE <<>>) \o Chosen(tests, i + 1)

\* the statement-start keywords in the order of the if/elif chain
OperationKeywords ==
  <<"SELECT", "INSERT", "UPDATE", "DELETE", "CREATE", "ALTER", "DROP">>

\* generate_sql_operation_labels: the first keyword the upper-cased, stripped
\* statement starts with
generate_sql_operation_labels(sql) ==
  LET Label(hits) ==
        IF hits = {} THEN <<>> ELSE <<Lower(OperationKeywords[MinOf(hits)])>>
      Hits(u) == {k \in 1..Len(OperationKeywords) : StartsWith(u, OperationKeywords[k])}
  IN Label(Hits(Strip(Upper(sql), SpaceChars)))

\* generate_sql_structure_labels with the tests for sorted and grouped in
\* each other's place
structure_labels_swapped(sql) ==
  LET Tests(u) ==
        << <<"join", Contains(u, "INNER JOIN") \/ Contains(u, "JOIN")>>,
           <<"left_join", Contains(u, "LEFT JOIN")>>,
           <<"right_join", Contains(u, "RIGHT JOIN")>>,
           <<"count", HasCall(u, {"COUNT"})>>,
           <<"sum", HasCall(u, {"SUM"})>>,
           <<"avg", HasCall(u, {"AVG"})>>,
           <<"minmax", HasCall(u, {"MAX", "MIN"})>>,
           <<"sorted", Contains(u, "ORDER BY")>>,
           <<"grouped", Contains(u, "GROUP BY")>>,
           <<"having", Contains(u, "HAVING")>>,
           <<"filtered", Contains(u, "WHERE")>>,
           <<"distinct", Contains(u, "DISTINCT")>>,
           <<"limited", Contains(u, "LIMIT")>>,
           <<"offset", Contains(u, "OFFSET")>>,
           <<"subquery", Count(u, "SELECT") > 1>> >>
  IN Chosen(Tests(Upper(sql)), 1)

\* generate_sql_structure_labels: every test is made on sql.upper()
generate_sql_structure_labels(sql) ==
  LET Tests(u) ==
        << <<"join", Contains(u, "INNER JOIN") \/ Contains(u, "JOIN")>>,
           <<"left_join", Contains(u, "LEFT JOIN")>>,
           <<"right_join", Contains(u, "RIGHT JOIN")>>,
           <<"count", HasCall(u, {"COUNT"})>>,
           <<"sum", HasCall(u, {"SUM"})>>,
           <<"avg", HasCall(u, {"AVG"})>>,
           <<"minmax", HasCall(u, {"MAX", "MIN"})>>,
           <<"grouped", Contains(u, "GROUP BY")>>,
           <<"sorted", Contains(u, "ORDER BY")>>,
           <<"having", Contains(u, "HAVING")>>,
           <<"filtered", Contains(u, "WHERE")>>,
           <<"distinct", Contains(u, "DISTINCT")>>,
           <<"limited", Contains(u, "LIMIT")>>,
           <<"offset", Contains(u, "OFFSET")>>,
           <<"subquery", Count(u, "SELECT") > 1>> >>
  IN Chosen(Tests(Upper(sql)), 1)

\* generate_labels: ', '.join(operation_labels + structure_labels)
generate_labels(sql) ==
  Join(generate_sql_operation_labels(sql) \o generate_sql_structure_labels(sql), ", ")

RECURSIVE SubRuns(_, _, _, _)
\* re.sub of a character class with '+' by '_', from position i on: every
\* maximal run of characters c with (c \in cs) = inside becomes one underscore
SubRuns(s, i, cs, inside) ==
  LET Rest(e) == IF e = 0 THEN "" ELSE SubRuns(s, e, cs, inside)
      Run(m) ==
        IF m = 0 THEN SubSeq(s, i, Len(s))
        ELSE SubSeq(s, i, m - 1) \o "_"
               \o Rest(First({j \in m..Len(s) : (At(s, j) \in cs) # inside}))
  IN Run(First({j \in i..Len(s) : (At(s, j) \in cs) = inside}))

\* lines 52-94 of generate_smart_tool_name: the list "features", as a set
DetectedFeatures(sql) ==
  (IF HasCall(sql, {"COUNT"}) THEN {"count"}
   ELSE IF HasCall(sql, {"SUM"}) THEN {"sum"}
   ELSE IF HasCall(sql, {"AVG", "MAX", "MIN"}) THEN {"aggregate"} ELSE {})
  \cup (IF HasWordPair(sql, "GROUP", "BY") THEN {"grouped"} ELSE {})
  \cup (IF HasWordPair(sql, "INNER", "JOIN") \/ HasWord(sql, "JOIN") THEN {"joined"}
        ELSE IF HasWordPair(sql, "LEFT", "JOIN") THEN {"left_joined"}
        ELSE IF HasWordPair(sql, "RIGHT", "JOIN") THEN {"right_joined"} ELSE {})
  \cup (IF HasWord(sql, "WHERE") THEN {"filtered"} ELSE {})
  \cup (IF HasWordPair(sql, "ORDER", "BY") THEN {"sorted"} ELSE {})
  \cup (IF HasWord(sql, "LIMIT") THEN {"limited"} ELSE {})
  \cup (IF HasWord(sql, "OFFSET") THEN {"offset"} ELSE {})
  \cup (IF HasWord(sql, "HAVING") THEN {"having"} ELSE {})
  \cup (IF HasWord(sql, "DISTINCT") THEN {"distinct"} ELSE {})

\* priority_order (lines 100-101)
PriorityOrder ==
  <<"count", "sum", "aggregate", "grouped", "joined", "left_joined",
    "filtered", "sorted", "limited", "distinct", "having", "offset">>

\* generate_smart_tool_name with every detected feature in the name
smart_tool_name_unlimited(sql, question) ==
  LET Prefix_(l) == IF l = <<>> THEN "query" ELSE l[1]
      Sorted(f) ==
        Chosen([k \in 1..Len(PriorityOrder) |-> <<PriorityOrder[k], PriorityOrder[k] \in f>>], 1)
  IN Join(<<Prefix_(generate_sql_operation_labels(sql))>> \o Sorted(DetectedFeatures(sql)), "_")

\* generate_smart_tool_name(sql, question); the prefix chain of lines 32-47
\* makes the tests of generate_sql_operation_labels and falls back to "query"
generate_smart_tool_name(sql, question) ==
  LET Prefix_(l) == IF l = <<>> THEN "query" ELSE l[1]
      Sorted(f) ==
        Chosen([k \in 1..Len(PriorityOrder) |-> <<PriorityOrder[k], PriorityOrder[k] \in f>>], 1)
      Clean(n) ==
        Strip(SubRuns(SubRuns(Lower(n), 1, LowerChars \cup DigitChars \cup {"_"}, FALSE),
                      1, {"_"}, TRUE), {"_"})
      Short(n) == IF Len(n) > 50 THEN StripRight(Prefix(n, 50), {"_"}) ELSE n
      Final(n) == IF n = "" THEN "query" ELSE n
  IN Final(Short(Clean(
       Join(<<Prefix_(generate_sql_operation_labels(sql))>>
              \o Prefix(Sorted(DetectedFeatures(sql)), 3), "_"))))


\* a finite mapping with no entries
EmptyMap == [k \in {} |-> ""]

(***************************************************************************)
(* describe_sql_structure, describe_parameters,                            *)
(* generate_semantic_description (quality.py)                              *)
(***************************************************************************)
\* the aggregate phrase: the first of the if/elif chain whose call occurs
AggregatePhrase(u) ==
  IF Contains(u, "COUNT(") THEN <<"counts records">>
  ELSE IF Contains(u, "SUM(") THEN <<"calculates sum">>
  ELSE IF Contains(u, "AVG(") THEN <<"calculates average">>
  ELSE IF Contains(u, "MAX(") \/ Contains(u, "MIN(") THEN <<"finds extremes">>
  ELSE <<>>

\* describe_sql_structure(sql)
describe_sql_structure(sql) ==
  LET Parts(u) ==
        IF ~Contains(u, "SELECT") THEN <<>>
        ELSE <<"Retrieves data">> \o AggregatePhrase(u) \o
             Chosen(<< <<"by joining multiple tables", Contains(u, "JOIN")>>,
                       <<"grouped by criteria", Contains(u, "GROUP BY")>>,
                       <<"with filtering conditions", Contains(u, "WHERE")>>,
                       <<"sorted by specified column", Contains(u, "ORDER BY")>>,
                       <<"limited to top results", Contains(u, "LIMIT")>> >>, 1)
  IN Join(Parts(Upper(sql)), " ")

\* how many entries of params[i..] fall in a category of describe_parameters
RECURSIVE CountIn(_, _, _)
CountIn(params, i, cat) ==
  IF i > Len(params) THEN 0
  ELSE LET InTables(p) == Contains(Lower(p.name), "table")
           InColumns(p) == Contains(Lower(p.name), "col")
           Hit(p) ==
             CASE cat = "tables" -> InTables(p)
               [] cat = "columns" -> InColumns(p)
               [] cat = "filters" -> p.name \in {"value", "threshold", "limit_n", "offset_n"}
               [] cat = "strings" -> p.type = "string" /\ ~InTables(p) /\ ~InColumns(p)
       IN (IF Hit(params[i]) THEN 1 ELSE 0) + CountIn(params, i + 1, cat)

\* describe_parameters(params)
describe_parameters(params) ==
  LET Phrase(text, n) == <<text \o " (" \o ToString(n) \o ")", n > 0>>
      Text(parts) == IF parts = <<>> THEN "" ELSE "Parameters: " \o Join(parts, ", ")
  IN IF params = <<>> THEN ""
     ELSE Text(Chosen(<<Phrase("customizable tables", CountIn(params, 1, "tables")),
                        Phrase("flexible column selection", CountIn(params, 1, "columns")),
                        Phrase("adjustable filters and limits", CountIn(params, 1, "filters")),
                        Phrase("string pattern matching", CountIn(params, 1, "strings"))>>, 1))

\* generate_semantic_description with the question as a further part
generate_semantic_description_with_question(sql, question, params) ==
  LET Parts(sql_desc, param_desc) ==
        (IF sql_desc # "" THEN <<sql_desc>> ELSE <<>>) \o
        (IF params # <<>> /\ param_desc # "" THEN <<param_desc>> ELSE <<>>) \o
        (IF question # "" THEN <<question>> ELSE <<>>)
  IN Prefix(Join(Parts(describe_sql_structure(sql), describe_parameters(params)), ". "),
            500)

\* generate_semantic_description(sql, question, params)
generate_semantic_description(sql, question, params) ==
  LET Parts(sql_desc, param_desc) ==
        (IF sql_desc # "" THEN <<sql_desc>> ELSE <<>>) \o
        (IF params # <<>> /\ param_desc # "" THEN <<param_desc>> ELSE <<>>)
  IN Prefix(Join(Parts(describe_sql_structure(sql), describe_parameters(params)), ". "),
            500)

(***************************************************************************)
(* sha (utils.py), parameterize() as one call, create_tool (validation.py) *)
(***************************************************************************)
\* hashlib.sha1(s.encode("utf-8")).hexdigest() on the texts sql + question
\* of the records below
Sha1Hex(s) ==
  CASE s = "How many users are there?" -> "c9823f05a44c3d5e1e44e019daf970c0cac08f1a"
    [] s = "SELECT * FROM tList every row of t" -> "dec4e7ecb5799f5354ac248346cdb56ad63b4120"
    [] s = "SELECT a FROM t WHERE b = 5" -> "fcb247c8cb8576a1ff62be0789f5f4b27340a53c"
    [] s = "SELECT a FROM t WHERE b = 5 LIMIT 3Show the first three a where b is five"
         -> "172f6dc465f76c8292f87972b26da7508c088b6b"
    [] s = "SELECT COUNT(*) FROM t JOIN u ON t.x = u.y WHERE b > 5 GROUP BY cHow many rows per c with b over five?"
         -> "d434b372bd26e356f958608d11c7c50ab8e3b8b0"

\* sha(s, n)
sha(s, n) == Prefix(Sha1Hex(s), n)

\* SQLParameterizer(...).parameterize(s) on a fresh instance: the blank-input
\* return, else the eight passes in order on an empty list and registry
parameterize(s, fl) ==
  LET Result(c) == [sql |-> c.out, params |-> c.params]
  IN IF IsBlank(s) THEN [sql |-> s, params |-> <<>>]
     ELSE Result(parameterize_special_clauses(parameterize_group_by(
            JoinPass(WherePass(SelectPass(TablesPass(
              parameterize_numbers(parameterize_strings(
                [out |-> s, params |-> <<>>, names |-> {}, rewrites |-> 0])),
              fl), fl), fl), fl))))

\* a question that is a str, as normalize() delivers it
StrQuestion(q) == [isstr |-> TRUE, truthy |-> q # "", text |-> q]

\* create_tool with the whole tool payload replaced by the bare statement
create_tool_statement_only(rec_norm, kind, source_name, parameterize_tables, min_score) ==
  LET Decide(p, v) ==
        IF ~v.is_valid THEN [tool |-> EmptyMap, key |-> v.msg]
        ELSE [tool |-> [k \in {"tool"} |-> [statement |-> p.sql]], key |-> "tool"]
      Build(p) == Decide(p, validate_tool_advanced(p.sql, p.params,
                                StrQuestion(rec_norm.question), min_score))
  IN Build(parameterize(rec_norm.sql, [parameterize_tables |-> parameterize_tables,
                                       parameterize_columns |-> TRUE]))

\* create_tool(rec_norm, kind, source_name, parameterize_tables, min_score):
\* what it returns, [tool, key], the second component being the reason when
\* the record is rejected
create_tool(rec_norm, kind, source_name, parameterize_tables, min_score) ==
  LET Payload(key, p, base_desc, labels_str) ==
        [tool |-> [k \in {key} |->
                     [kind |-> kind, source |-> source_name, statement |-> p.sql,
                      description |-> IF labels_str # ""
                                      THEN base_desc \o " [Labels: " \o labels_str \o "]"
                                      ELSE base_desc,
                      templateParameters |-> p.params]],
         key |-> key]
      Decide(p, v) ==
        IF ~v.is_valid THEN [tool |-> EmptyMap, key |-> v.msg]
        ELSE Payload(generate_smart_tool_name(p.sql, rec_norm.question) \o "_"
                       \o sha(rec_norm.sql \o rec_norm.question, 4),
                     p,
                     generate_semantic_description(p.sql, rec_norm.question, p.params),
                     generate_labels(rec_norm.sql))
      Build(p) == Decide(p, validate_tool_advanced(p.sql, p.params,
                                StrQuestion(rec_norm.question), min_score))
  IN Build(parameterize(rec_norm.sql, [parameterize_tables |-> parameterize_tables,
                                       parameterize_columns |-> TRUE]))

(***************************************************************************)
(* merge_yaml (io_operations.py)                                           *)
(***************************************************************************)
\* dict.update: the entries of t replace and extend those of m
Update(m, t) ==
  [k \in DOMAIN m \cup DOMAIN t |-> IF k \in DOMAIN t THEN t[k] ELSE m[k]]

\* for t in tools: data["tools"].update(t), from the i-th tool on
RECURSIVE UpdateAll(_, _, _)
UpdateAll(m, tools, i) ==
  IF i > Len(tools) THEN m ELSE UpdateAll(Update(m, tools[i]), tools, i + 1)

\* merge_yaml that keeps, for a key the file already holds, the file's entry
merge_yaml_keep_first(d, tools) ==
  LET Data == IF d.kind = "dict" THEN d
              ELSE [kind |-> "dict", has_tools |-> FALSE, tools |-> EmptyMap, rest |-> {}]
  IN [kind |-> "dict", has_tools |-> TRUE,
      tools |-> Update(UpdateAll(EmptyMap, tools, 1), Data.tools),
      rest |-> Data.rest]

\* merge_yaml(out_path, tools): the content of the file afterwards.  The
\* file is absent, holds something that is no mapping, or holds a mapping
\* with or without the key "tools"
merge_yaml(d, tools) ==
  LET Data == IF d.kind = "dict" THEN d
              ELSE [kind |-> "dict", has_tools |-> FALSE, tools |-> EmptyMap, rest |-> {}]
  IN [kind |-> "dict", has_tools |-> TRUE,
      tools |-> UpdateAll(Data.tools, tools, 1),
      rest |-> Data.rest]



(***************************************************************************)
(* run_processing (app_interactive.py): the body of the batch loop         *)
(***************************************************************************)
\* the counters of stats before the first record (lines 374-384)
ZeroStats ==
  [success |-> 0, empty_sql |-> 0, quality_issues |-> 0, low_score |-> 0,
   high_score |-> 0, errors |-> 0, total_quality_score |-> 0,
   label_counts |-> EmptyMap]

\* normalize(rec) on a line of the input file: a JSON value that is no
\* object has no .get and a value of "sql" that is no str has no .strip, so
\* the call raises; else the question and the statement, stripped
normalize(line) ==
  IF ~line.isdict \/ ~line.sql_is_str THEN [raised |-> TRUE, sql |-> "", question |-> ""]
  ELSE [raised |-> FALSE, sql |-> Strip(line.sql, SpaceChars),
        question |-> Strip(line.question, SpaceChars)]

\* stats[counter] += 1
Bump(st, counter) == [st EXCEPT !.stats[counter] = @ + 1]

RECURSIVE TrackLabels(_, _, _)
\* "for label in labels_str.split(', '): label_counts[label] = ... + 1",
\* from the i-th label on
TrackLabels(counts, labels, i) ==
  IF i > Len(labels) THEN counts
  ELSE TrackLabels(
         [l \in DOMAIN counts \cup {labels[i]} |->
            IF l = labels[i] THEN (IF l \in DOMAIN counts THEN counts[l] ELSE 0) + 1
            ELSE counts[l]],
         labels, i + 1)

\* labels_str.split(', '): the labels hold neither commas nor blanks
SplitLabels(labels_str) ==
  LET Parts(ps) == [k \in 1..Len(ps) |-> Strip(ps[k], {" "})]
  IN Parts(Split(labels_str, ","))

\* lines 432-455: the tool of an accepted record is appended, success and
\* the score total go up and the labels are tallied
Accept(st, n, p, quality_score, cfg) ==
  LET Tool(key, base_desc, labels_str) ==
        [st EXCEPT
           !.tools = Append(@,
              [k \in {key} |->
                 [kind |-> cfg.kind, source |-> cfg.source_name, statement |-> p.sql,
                  description |-> IF labels_str # ""
                                  THEN base_desc \o " [Labels: " \o labels_str \o "]"
                                  ELSE base_desc,
                  templateParameters |-> p.params]]),
           !.stats.success = @ + 1,
           !.stats.total_quality_score = @ + quality_score,
           !.stats.label_counts =
              IF labels_str # "" THEN TrackLabels(@, SplitLabels(labels_str), 1) ELSE @]
  IN Tool(generate_smart_tool_name(p.sql, n.question) \o "_"
            \o sha(n.sql \o n.question, 4),
          generate_semantic_description(p.sql, n.question, p.params),
          generate_labels(n.sql))

\* lines 414-430: the validator's verdict and the upper bound on the score
Judge(st, n, p, v, cfg) ==
  IF ~v.is_valid
  THEN (IF Contains(v.msg, "Quality score too low") THEN Bump(st, "low_score")
        ELSE Bump(st, "quality_issues"))
  ELSE IF v.score > cfg.max_quality_score THEN Bump(st, "high_score")
  ELSE Accept(st, n, p, v.score, cfg)

\* the loop body with the "continue" after the minimum-parameters check
\* left out: the record goes on to validation
Screen_no_continue(st, n, p, cfg) ==
  Judge(IF Len(p.params) < cfg.min_params THEN Bump(st, "low_score") ELSE st,
        n, p, validate_tool_advanced(p.sql, p.params, StrQuestion(n.question),
                                     cfg.min_quality_score), cfg)

\* lines 409-416
Screen(st, n, p, cfg) ==
  IF Len(p.params) < cfg.min_params THEN Bump(st, "low_score")
  ELSE Judge(st, n, p, validate_tool_advanced(p.sql, p.params, StrQuestion(n.question),
                                              cfg.min_quality_score), cfg)

\* one turn of the loop (lines 394-459) on the line of the input file, st
\* being [stats, tools]: an exception ends the turn in the handler
process_record(st, line, cfg) ==
  LET Body(n) ==
        IF n.raised THEN Bump(st, "errors")
        ELSE IF n.sql = "" THEN Bump(st, "empty_sql")
        ELSE Screen(st, n,
                      parameterize(n.sql,
                                   [parameterize_tables |-> cfg.parameterize_tables,
                                    parameterize_columns |-> cfg.parameterize_columns]),
                      cfg)
  IN Body(normalize(line))

(***************************************************************************)
(* Inputs                                                                  *)
(***************************************************************************)
\* the longest SELECT column list the generated statements carry
MaxColumns == 2

ColumnPool == <<"name", "city", "age", "zip">>

SelectParts ==
  {"SELECT " \o Join(SubSeq(ColumnPool, 1, n), ", ") : n \in 1..MaxColumns}
    \cup {"SELECT COUNT(*)"}

FromParts == {" FROM users", " FROM orders o JOIN users ON o.uid = users.id"}

WhereParts == {"", " WHERE age > 30", " WHERE code = '42'",
               " WHERE id IN (SELECT uid FROM orders LIMIT 5)"}

GroupParts == {"", " GROUP BY city"}

TailParts == {"", " ORDER BY name DESC", " ORDER BY name LIMIT 10 OFFSET 20"}

\* statements assembled clause by clause
ClauseInputs ==
  {s \o f \o w \o g \o t :
     s \in SelectParts, f \in FromParts, w \in WhereParts, g \in GroupParts, t \in TailParts}

\* blank input, statements no pass rewrites, the validator's "too simple"
\* shape, text that already carries a template token, colliding and reserved
\* names
SpecialInputs ==
  {"", "  ", "SELECT 1", "SELECT * FROM t", "SELECT * FROM t;",
   "SELECT name FROM users WHERE age > 30 LIMIT 10",
   "SELECT a FROM t WHERE a = {{.v}} LIMIT 3",
   "SELECT a FROM t WHERE b = \"x y\" AND c = 'x-y'",
   "SELECT a FROM t WHERE note LIKE '%limit%' LIMIT 5",
   "UPDATE t SET a = 5 WHERE b = 2.5"}

\* statements that carry template tokens before the call
TemplatedInputs ==
  {"SELECT {{.c}}, b FROM {{.t}} WHERE {{.w}} IN (1) GROUP BY {{.g}}, h ORDER BY {{.o}} DESC LIMIT {{.n}} OFFSET {{.m}}",
   "SELECT a FROM {{.t}} x JOIN u y ON x.id = y.{{.j}}",
   "SELECT a FROM t WHERE x.{{.w}} LIKE 'abc' ORDER BY x.{{.o}} ASC"}

\* a function call, a statement and a parenthesis where a table name stands
TableInputs ==
  {"SELECT g FROM generate_series(1, 3) g", "INSERT INTO t SELECT a FROM u",
   "SELECT a FROM (SELECT b FROM u) x", "INSERT INTO t VALUES (1)"}

\* numbers in a BETWEEN, after HAVING and LIMIT, and more than 40 characters
\* away from the nearest comparison
NumberInputs ==
  {"SELECT a FROM t WHERE a BETWEEN 1 AND 2.5", "SELECT a FROM t HAVING 3 LIMIT 4",
   "SELECT a FROM t WHERE note IS NULL AND a_very_long_column_name_for_distance IN (7)"}

\* ORDER BY on a function call and on a qualified column, with and without a
\* direction
OrderInputs ==
  {"SELECT a FROM t ORDER BY LOWER(name) DESC", "SELECT a FROM t ORDER BY LOWER(name) LIMIT 2",
   "SELECT a FROM t ORDER BY t.a asc", "SELECT a FROM t ORDER BY COUNT(*)"}

\* quoted literals the string pass skips, and a single-quoted literal ahead
\* of a double-quoted one
StringInputs ==
  {"SELECT a FROM t WHERE f = 'Y' AND g = 'a' AND d = 'asc' AND h = \"No\"",
   "SELECT a FROM t WHERE c = 'x-y' AND d = 'desc' AND b = \"x y\" AND e LIKE '%ab/c%'"}

Inputs ==
  ClauseInputs \cup SpecialInputs \cup TemplatedInputs \cup TableInputs \cup NumberInputs
    \cup OrderInputs \cup StringInputs

\* the statements two concurrent callers pass to a shared instance
ConcInputs == {"SELECT a FROM t", "SELECT b FROM u LIMIT 5"}

FlagSets == [parameterize_tables : BOOLEAN, parameterize_columns : BOOLEAN]
DefaultFlags == [parameterize_tables |-> TRUE, parameterize_columns |-> TRUE]

Callers == {1, 2}

\* a parameter entry as _add_param builds it
Param(name) == [name |-> name, type |-> "string", description |-> "Value (e.g., 1)"]

\* the arguments validate_tool_advanced is called with.  A question is
\* [isstr, truthy, text]: a str carries its text, any other value (None, a
\* number) only its truth value
ValSqls ==
  {"", " \n", "SELECT 1", "SELECT * FROM t", "select  *  from users ;",
   "SELECT * FROM {{.table}}", "SELECT a FROM t WHERE b = 5",
   "SELECT {{.select_col}} FROM {{.table}} WHERE age > {{.value}} LIMIT {{.limit_n}}",
   "SELECT a FROM {{.table}} WHERE b > {{.ghost}}",
   "select a from {{.table}} where k in (select id from w)",
   "SELECT COUNT(*) FROM {{.table}} o JOIN {{.table_1}} ON o.{{.join_col}} = u.id GROUP BY {{.group_col}} HAVING COUNT(*) > {{.value}}",
   "SELECT DISTINCT a, COUNT(*) FROM {{.table}} o JOIN u ON o.x = u.y JOIN v ON v.z = u.y WHERE k IN (SELECT id FROM w) GROUP BY a HAVING COUNT(*) > {{.value}}"}

ValParams ==
  {<<>>, <<Param("table")>>, <<Param("table"), Param("select_col")>>,
   <<Param("value"), Param("table"), Param("select_col"), Param("limit_n")>>,
   <<Param("value"), Param("table"), Param("table_1"), Param("join_col"),
     Param("group_col")>>}

ValQuestions ==
  {[isstr |-> FALSE, truthy |-> FALSE, text |-> ""],
   [isstr |-> FALSE, truthy |-> TRUE, text |-> ""],
   [isstr |-> TRUE, truthy |-> FALSE, text |-> ""],
   [isstr |-> TRUE, truthy |-> TRUE, text |-> "rows"],
   [isstr |-> TRUE, truthy |-> TRUE, text |-> "users"],
   [isstr |-> TRUE, truthy |-> TRUE,
    text |-> "How many orders did each of the users place, and what is the total?"]}

ValMinScores == {0, 30, 50, 101}

(***************************************************************************)
(* State                                                                   *)
(***************************************************************************)
VARIABLES
  flags,        \* self.parameterize_tables, self.parameterize_columns
  params,       \* self.params
  param_names,  \* self.param_names
  pc,           \* per caller: where its parameterize() call stands
  arg,          \* per caller: the sql argument of its call
  sql,          \* per caller: the local variable sql of its call
  ret,          \* per caller: what its call returned
  rewrites,     \* per caller: the matches the passes of its call rewrote
  reuse,        \* per caller: what the instance held when its call began
  overlapped,   \* per caller: another call ran on the instance during its call
  last_blank,   \* the latest call on the instance had blank input
  vcall,        \* the arguments of a validate_tool_advanced call
  vres,         \* and its result
  vscore,       \* what calculate_tool_quality_score returned for them
  lsql,         \* the statement generate_labels and generate_smart_tool_name get
  lab,          \* what generate_labels returned
  nm,           \* what generate_smart_tool_name returned
  rec,          \* the arguments of the latest create_tool call
  made,         \* what that call returned
  batch,        \* the list "tools" of the run
  doc,          \* the content of the output file
  saved,        \* merge_yaml has written the output file
  config,       \* the settings of the run
  stats,        \* the counters of the run
  seen,         \* the records the loop has been through
  dcall,        \* the statement and parameters generate_semantic_description gets
  described     \* per question: what it returned for them and that question

vars == <<flags, params, param_names, pc, arg, sql, ret, rewrites, reuse, overlapped,
          last_blank, vcall, vres, vscore, lsql, lab, nm, rec, made, batch, doc, saved,
          config, stats, seen, dcall, described>>

\* the variables of the batch loop and of the description calls
rvars == <<config, stats, seen, dcall, described>>

\* the variables of the naming, tool-building and merging steps
tvars == <<lsql, lab, nm, rec, made, batch, doc, saved, rvars>>

pvars == <<flags, params, param_names, pc, arg, sql, ret, rewrites, reuse, overlapped,
           last_blank>>

NoResult == [sql |-> "", params |-> <<>>]
NoVerdict == [is_valid |-> FALSE, msg |-> "", score |-> 0]
NoQuestion == [isstr |-> FALSE, truthy |-> FALSE, text |-> ""]
NoCall == [made |-> FALSE, sql |-> "", params |-> <<>>, question |-> NoQuestion,
           min_score |-> 0]

\* SQLParameterizer.__init__ (lines 10-15): the flags as given, an empty list
\* and an empty registry; no call under way
InitInstance(fs) ==
  /\ flags \in fs
  /\ params = <<>>
  /\ param_names = {}
  /\ pc = [t \in Callers |-> "idle"]
  /\ arg = [t \in Callers |-> ""]
  /\ sql = [t \in Callers |-> ""]
  /\ ret = [t \in Callers |-> NoResult]
  /\ rewrites = [t \in Callers |-> 0]
  /\ reuse = [t \in Callers |-> "first"]
  /\ overlapped = [t \in Callers |-> FALSE]
  /\ last_blank = FALSE

\* no output file yet
NoFile == [kind |-> "absent", has_tools |-> FALSE, tools |-> EmptyMap, rest |-> {}]

NoRecord == [sql |-> "", question |-> "", parameterize_tables |-> TRUE, min_score |-> 0]

\* the settings before any is chosen: the defaults of interactive_setup
NoConfig ==
  [kind |-> "mysql-sql", source_name |-> "interactive", parameterize_tables |-> TRUE,
   parameterize_columns |-> TRUE, min_quality_score |-> 50,
   max_quality_score |-> 100, min_params |-> 1]

\* nothing scored, named, built or merged yet; the statement to name is drawn
\* from ls and the content of the output file from ds.  A result that is not
\* there yet is the empty sequence, a result r the sequence <<r>>.
BuildInit(ls, ds) ==
  /\ vscore = <<>>
  /\ lsql \in ls
  /\ lab = <<>>
  /\ nm = <<>>
  /\ rec = NoRecord
  /\ made = <<>>
  /\ batch = <<>>
  /\ doc \in ds
  /\ saved = FALSE
  /\ config = NoConfig
  /\ stats = ZeroStats
  /\ seen = 0
  /\ dcall = NoResult
  /\ described = EmptyMap

Init ==
  /\ InitInstance(FlagSets)
  /\ vcall = NoCall /\ vres = NoVerdict
  /\ BuildInit({""}, {NoFile})

Active(t) == pc[t] \notin {"idle", "done"}

(***************************************************************************)
(* parameterize(), one step per pass                                       *)
(***************************************************************************)
\* a call that starts from what the instance holds, without the reset
KeepState == [params |-> params, names |-> param_names]

\* lines 50-51: the list and the registry a call starts from
Reset == [params |-> <<>>, names |-> {}]

\* lines 47-51: the blank-input return, else the reset of list and registry
Begin(t, s) ==
  /\ pc[t] = "idle"
  /\ arg' = [arg EXCEPT ![t] = s]
  /\ rewrites' = [rewrites EXCEPT ![t] = 0]
  /\ last_blank' = IsBlank(s)
  /\ IF IsBlank(s)
     THEN /\ ret' = [ret EXCEPT ![t] = [sql |-> s, params |-> <<>>]]
          /\ pc' = [pc EXCEPT ![t] = "done"]
          /\ reuse' = [reuse EXCEPT ![t] = "first"]
          /\ UNCHANGED <<params, param_names, sql, overlapped>>
     ELSE /\ params' = Reset.params
          /\ param_names' = Reset.names
          /\ sql' = [sql EXCEPT ![t] = s]
          /\ pc' = [pc EXCEPT ![t] = "strings"]
          /\ reuse' = [reuse EXCEPT ![t] =
                         IF params = <<>> THEN "first"
                         ELSE IF last_blank THEN "after_blank" ELSE "reused"]
          /\ overlapped' = [u \in Callers |->
                              IF u = t THEN \E v \in Callers \ {t} : Active(v)
                              ELSE overlapped[u] \/ Active(u)]
          /\ UNCHANGED ret
  /\ UNCHANGED <<flags, vcall, vres, vscore, tvars>>

\* what a pass of caller t works on: the text of its own call, the list and
\* the registry of the instance
Acc(t) ==
  [out |-> sql[t], params |-> params, names |-> param_names, rewrites |-> rewrites[t]]

\* caller t, at the pass `at`, runs it with the result d and moves on to `to`
RunPass(t, at, d, to) ==
  /\ pc[t] = at
  /\ sql' = [sql EXCEPT ![t] = d.out]
  /\ params' = d.params
  /\ param_names' = d.names
  /\ rewrites' = [rewrites EXCEPT ![t] = d.rewrites]
  /\ pc' = [pc EXCEPT ![t] = to]
  /\ UNCHANGED <<flags, arg, ret, reuse, overlapped, last_blank, vcall, vres, vscore,
                 tvars>>

\* lines 53-79, one action per pass
PassStrings(t) == RunPass(t, "strings", parameterize_strings(Acc(t)), "numbers")
PassNumbers(t) == RunPass(t, "numbers", parameterize_numbers(Acc(t)), "tables")
PassTables(t) == RunPass(t, "tables", TablesPass(Acc(t), flags), "select")
PassSelect(t) == RunPass(t, "select", SelectPass(Acc(t), flags), "where")
PassWhere(t) == RunPass(t, "where", WherePass(Acc(t), flags), "join")
PassJoin(t) == RunPass(t, "join", JoinPass(Acc(t), flags), "group")
PassGroup(t) == RunPass(t, "group", parameterize_group_by(Acc(t)), "special")
PassSpecial(t) == RunPass(t, "special", parameterize_special_clauses(Acc(t)), "return")

\* line 81: return sql, self.params
Return(t) ==
  /\ pc[t] = "return"
  /\ ret' = [ret EXCEPT ![t] = [sql |-> sql[t], params |-> params]]
  /\ pc' = [pc EXCEPT ![t] = "done"]
  /\ UNCHANGED <<flags, params, param_names, arg, sql, rewrites, reuse, overlapped,
                 last_blank, vcall, vres, vscore, tvars>>

\* the caller takes the result; the instance is ready for the next record
Finish(t) ==
  /\ pc[t] = "done"
  /\ pc' = [pc EXCEPT ![t] = "idle"]
  /\ ret' = [ret EXCEPT ![t] = NoResult]
  /\ arg' = [arg EXCEPT ![t] = ""]
  /\ sql' = [sql EXCEPT ![t] = ""]
  /\ rewrites' = [rewrites EXCEPT ![t] = 0]
  /\ reuse' = [reuse EXCEPT ![t] = "first"]
  /\ overlapped' = [overlapped EXCEPT ![t] = FALSE]
  /\ UNCHANGED <<flags, params, param_names, last_blank, vcall, vres, vscore, tvars>>

\* one caller uses the instance, one call after another
Next ==
  \/ \E s \in Inputs : Begin(1, s)
  \/ PassStrings(1)
  \/ PassNumbers(1)
  \/ PassTables(1)
  \/ PassSelect(1)
  \/ PassWhere(1)
  \/ PassJoin(1)
  \/ PassGroup(1)
  \/ PassSpecial(1)
  \/ Return(1)
  \/ Finish(1)

Spec == Init /\ [][Next]_vars

\* two callers share one instance; their calls interleave between passes
ConcNext ==
  \E t \in Callers :
    \/ \E s \in ConcInputs : Begin(t, s)
    \/ PassStrings(t)
    \/ PassNumbers(t)
    \/ PassTables(t)
    \/ PassSelect(t)
    \/ PassWhere(t)
    \/ PassJoin(t)
    \/ PassGroup(t)
    \/ PassSpecial(t)
    \/ Return(t)
    \/ Finish(t)

ConcInit ==
  /\ InitInstance({DefaultFlags})
  /\ vcall = NoCall /\ vres = NoVerdict
  /\ BuildInit({""}, {NoFile})

ConcSpec == ConcInit /\ [][ConcNext]_vars

(***************************************************************************)
(* validate_tool_advanced, called with arbitrary arguments                 *)
(***************************************************************************)
ValInit ==
  /\ InitInstance({DefaultFlags})
  /\ vcall \in [made : {FALSE}, sql : ValSqls, params : ValParams,
                question : ValQuestions, min_score : ValMinScores]
  /\ vres = NoVerdict
  /\ BuildInit({""}, {NoFile})

\* the call returns its verdict
Validate ==
  /\ ~vcall.made
  /\ vres' = validate_tool_advanced(vcall.sql, vcall.params, vcall.question,
                                    vcall.min_score)
  /\ vcall' = [vcall EXCEPT !.made = TRUE]
  /\ UNCHANGED <<pvars, vscore, tvars>>

\* calculate_tool_quality_score called with the same SQL, parameters and
\* question; the question is a str or None (len() of anything else raises)
Score ==
  /\ vscore = <<>>
  /\ vcall.question.isstr \/ ~vcall.question.truthy
  /\ vscore' = <<calculate_tool_quality_score(vcall.sql, vcall.params,
                                               vcall.question.text)>>
  /\ UNCHANGED <<pvars, vcall, vres, tvars>>

ValNext == Validate \/ Score

ValSpec == ValInit /\ [][ValNext]_vars

(***************************************************************************)
(* generate_labels and generate_smart_tool_name, called on a statement     *)
(***************************************************************************)
\* statements with the other operations, lower case, leading whitespace, no
\* operation keyword at the start, every structure keyword at once, and
\* keywords inside identifiers
LabelSpecials ==
  {"SELECT COUNT(*) FROM t GROUP BY t.id", "INSERT INTO t VALUES (1)",
   "update t set a = 1 where b = 2", "  DELETE FROM t", "CREATE TABLE t (a INT)",
   "ALTER TABLE t ADD c INT", "DROP TABLE t", "WITH x AS (SELECT 1) SELECT a FROM x",
   "SELECT DISTINCT a, SUM(b), AVG(c), MAX(d) FROM t LEFT JOIN u ON t.x = u.y RIGHT JOIN v ON v.z = u.y WHERE k > 1 GROUP BY a HAVING SUM(b) > 2 ORDER BY a LIMIT 1 OFFSET 2",
   "SELECT discount (x), recount FROM limits",
   "SELECT COUNT(a), SUM(b) FROM t WHERE c = 1"}

LabelInputs == Inputs \cup LabelSpecials

LabelInit ==
  /\ InitInstance({DefaultFlags})
  /\ vcall = NoCall /\ vres = NoVerdict
  /\ BuildInit(LabelInputs, {NoFile})

\* generate_labels(lsql) returns
Label ==
  /\ lab = <<>>
  /\ lab' = <<generate_labels(lsql)>>
  /\ UNCHANGED <<pvars, vcall, vres, vscore, lsql, nm, rec, made, batch, doc, saved, rvars>>

\* generate_smart_tool_name(lsql) returns
Name ==
  /\ nm = <<>>
  /\ nm' = <<generate_smart_tool_name(lsql, "")>>
  /\ UNCHANGED <<pvars, vcall, vres, vscore, lsql, lab, rec, made, batch, doc, saved, rvars>>

LabelNext == Label \/ Name

LabelSpec == LabelInit /\ [][LabelNext]_vars

(***************************************************************************)
(* A run: records turned into tools, the accepted ones merged into the file*)
(***************************************************************************)
\* the most tools a run collects before it merges
MaxBatch == 2

\* normalized records: blank SQL, a statement too plain, a record with no
\* question, and two records the validator accepts
Records ==
  {[sql |-> "", question |-> "How many users are there?"],
   [sql |-> "SELECT * FROM t", question |-> "List every row of t"],
   [sql |-> "SELECT a FROM t WHERE b = 5", question |-> ""],
   [sql |-> "SELECT a FROM t WHERE b = 5 LIMIT 3",
    question |-> "Show the first three a where b is five"],
   [sql |-> "SELECT COUNT(*) FROM t JOIN u ON t.x = u.y WHERE b > 5 GROUP BY c",
    question |-> "How many rows per c with b over five?"]}

ToolKind == "postgres-sql"
ToolSource == "db1"
ToolMinScores == {50}

\* entries an earlier run left in the file
OldEntry(statement) ==
  [kind |-> "postgres-sql", source |-> "db0", statement |-> statement,
   description |-> "an earlier tool", templateParameters |-> <<>>]

\* the output file before the run: absent, not a mapping, a mapping without
\* "tools", and a mapping whose tools hold one key the run produces again
\* and one it does not
Docs ==
  {NoFile,
   [kind |-> "other", has_tools |-> FALSE, tools |-> EmptyMap, rest |-> {}],
   [kind |-> "dict", has_tools |-> FALSE, tools |-> EmptyMap, rest |-> {"sources"}],
   [kind |-> "dict", has_tools |-> TRUE,
    tools |-> [k \in {"select_filtered_limited_172f", "old_tool"} |->
                 OldEntry(IF k = "old_tool" THEN "SELECT 1" ELSE "SELECT 2")],
    rest |-> {"sources"}]}

ToolInit ==
  /\ InitInstance({DefaultFlags})
  /\ vcall = NoCall /\ vres = NoVerdict
  /\ BuildInit({""}, Docs)

\* create_tool(r, ...) returns
Create(r, pt, ms) ==
  /\ ~saved
  /\ made = <<>>
  /\ Len(batch) < MaxBatch
  /\ rec' = [sql |-> r.sql, question |-> r.question, parameterize_tables |-> pt,
             min_score |-> ms]
  /\ made' = <<create_tool(r, ToolKind, ToolSource, pt, ms)>>
  /\ UNCHANGED <<pvars, vcall, vres, vscore, lsql, lab, nm, batch, doc, saved, rvars>>

\* the caller appends an accepted tool to its list and drops a rejected one
Collect ==
  /\ made # <<>>
  /\ batch' = IF made[1].tool # EmptyMap THEN Append(batch, made[1].tool) ELSE batch
  /\ made' = <<>>
  /\ UNCHANGED <<pvars, vcall, vres, vscore, lsql, lab, nm, rec, doc, saved, rvars>>

\* "if tools: merge_yaml(output_file, tools)"
Merge ==
  /\ ~saved
  /\ made = <<>>
  /\ batch # <<>>
  /\ doc' = merge_yaml(doc, batch)
  /\ saved' = TRUE
  /\ UNCHANGED <<pvars, vcall, vres, vscore, lsql, lab, nm, rec, made, batch, rvars>>

ToolNext ==
  \/ \E r \in Records, pt \in BOOLEAN, ms \in ToolMinScores : Create(r, pt, ms)
  \/ Collect
  \/ Merge

ToolSpec == ToolInit /\ [][ToolNext]_vars

(***************************************************************************)
(* run_processing: the batch loop over the lines of the input file         *)
(***************************************************************************)
\* the most records a run goes through
MaxRecords == 2

\* a line holding a JSON object with the keys "sql" and "question"
Line(r) == [isdict |-> TRUE, sql_is_str |-> TRUE, sql |-> r.sql, question |-> r.question]

\* the lines of the input file: the records above, one of them again with
\* blanks around both texts, a statement of blanks only, a JSON list, and
\* an object whose "sql" is a number
Lines ==
  {Line(r) : r \in Records} \cup
  {Line([sql |-> "  SELECT a FROM t WHERE b = 5 LIMIT 3\n",
         question |-> " Show the first three a where b is five "]),
   Line([sql |-> " \t ", question |-> "How many users are there?"]),
   [isdict |-> FALSE, sql_is_str |-> TRUE, sql |-> "", question |-> ""],
   [isdict |-> TRUE, sql_is_str |-> FALSE, sql |-> "", question |-> "List every row of t"]}

\* the settings interactive_setup can return: tables parameterized or not,
\* no upper bound on the score or one, no or one parameter required
Configs ==
  {[NoConfig EXCEPT !.parameterize_tables = pt, !.max_quality_score = mx,
                    !.min_params = mp] :
     pt \in BOOLEAN, mx \in {60, 100}, mp \in {0, 1}}

RunInit ==
  /\ InitInstance({DefaultFlags})
  /\ vcall = NoCall /\ vres = NoVerdict
  /\ vscore = <<>> /\ lsql = "" /\ lab = <<>> /\ nm = <<>>
  /\ rec = NoRecord /\ made = <<>> /\ batch = <<>>
  /\ doc = NoFile /\ saved = FALSE
  /\ config \in Configs
  /\ stats = ZeroStats
  /\ seen = 0
  /\ dcall = NoResult
  /\ described = EmptyMap

\* one turn of the loop "for idx, rec in enumerate(records)" on the line
Process(line) ==
  LET Turn(st) ==
        /\ stats' = st.stats
        /\ batch' = st.tools
  IN /\ ~saved
     /\ seen < MaxRecords
     /\ Turn(process_record([stats |-> stats, tools |-> batch], line, config))
     /\ seen' = seen + 1
     /\ UNCHANGED <<pvars, vcall, vres, vscore, lsql, lab, nm, rec, made, doc, saved,
                    config, dcall, described>>

\* after the loop: "if tools: merge_yaml(output_file, tools)"
Save ==
  /\ ~saved
  /\ seen >= 1
  /\ batch # <<>>
  /\ doc' = merge_yaml(doc, batch)
  /\ saved' = TRUE
  /\ UNCHANGED <<pvars, vcall, vres, vscore, lsql, lab, nm, rec, made, batch, rvars>>

RunNext ==
  \/ \E line \in Lines : Process(line)
  \/ Save

RunSpec == RunInit /\ [][RunNext]_vars

(***************************************************************************)
(* generate_semantic_description, called with one question after another   *)
(***************************************************************************)
\* statements that are no query, or hold nothing to parameterize
DescSpecials == {"UPDATE t SET a = 1 WHERE b = 2", "SELECT a FROM t", "DROP TABLE t"}

\* the questions a record may carry: none, a plain one, and one worded like
\* a description
DescQuestions ==
  {"", "How many users are there?", "Retrieves data. Parameters: customizable tables (9)"}

\* what parameterize() hands on: statement and parameter list
DescCalls ==
  {parameterize(s, fl) : s \in Inputs \cup LabelSpecials \cup DescSpecials,
                         fl \in {DefaultFlags, [parameterize_tables |-> FALSE,
                                                 parameterize_columns |-> FALSE]}}

DescInit ==
  /\ InitInstance({DefaultFlags})
  /\ vcall = NoCall /\ vres = NoVerdict
  /\ vscore = <<>> /\ lsql = "" /\ lab = <<>> /\ nm = <<>>
  /\ rec = NoRecord /\ made = <<>> /\ batch = <<>>
  /\ doc = NoFile /\ saved = FALSE
  /\ config = NoConfig /\ stats = ZeroStats /\ seen = 0
  /\ dcall \in DescCalls
  /\ described = EmptyMap

\* generate_semantic_description(dcall.sql, q, dcall.params) returns
Describe(q) ==
  /\ q \notin DOMAIN described
  /\ described' = [k \in DOMAIN described \cup {q} |->
                     IF k = q THEN generate_semantic_description(dcall.sql, q, dcall.params)
                     ELSE described[k]]
  /\ UNCHANGED <<pvars, vcall, vres, vscore, lsql, lab, nm, rec, made, batch, doc, saved,
                 config, stats, seen, dcall>>

DescNext == \E q \in DescQuestions : Describe(q)

DescSpec == DescInit /\ [][DescNext]_vars

(***************************************************************************)
(* Properties                                                              *)
(***************************************************************************)
\* the names of the entries of a parameter list
NamesOf(ps) == {ps[k].name : k \in 1..Len(ps)}

\* no two entries of a parameter list carry the same name
DistinctNames(ps) ==
  \A i, j \in 1..Len(ps) : i # j => ps[i].name # ps[j].name

\* the names of the entries of a parameter list, in order
NameSeq(ps) == [k \in 1..Len(ps) |-> ps[k].name]

Done(t) == pc[t] = "done"

\* C1: whenever parameterize() has returned, the placeholder names occurring
\* in the returned SQL are exactly the names of the returned parameters, and
\* each of them names exactly one entry of the returned list.
C1_PlaceholdersMatchParams ==
  Done(1) =>
    /\ PlaceholderNames(ret[1].sql) = NamesOf(ret[1].params)
    /\ DistinctNames(ret[1].params)

\* C2: with both flags on, the call on
\* "SELECT name FROM users WHERE age > 30 LIMIT 10" returns the SQL
\* "SELECT {{.select_col}} FROM {{.table}} WHERE {{.where_col}} > {{.value}}
\* LIMIT {{.limit_n}}" and the five parameters value, table, select_col,
\* where_col, limit_n in that order.
C2_WorkedExample ==
  Done(1) /\ flags = DefaultFlags
          /\ arg[1] = "SELECT name FROM users WHERE age > 30 LIMIT 10" =>
    /\ ret[1].sql =
         "SELECT {{.select_col}} FROM {{.table}} WHERE {{.where_col}} > {{.value}} LIMIT {{.limit_n}}"
    /\ NameSeq(ret[1].params) =
         <<"value", "table", "select_col", "where_col", "limit_n">>

\* C3: at every point of a call no two entries of the parameter list share a
\* name, the registry holds exactly the names of the list, and the returned
\* list has no two entries with the same name.
C3_UniqueNames ==
  /\ DistinctNames(params)
  /\ param_names = NamesOf(params)
  /\ Done(1) => DistinctNames(ret[1].params)

\* a call has returned two parameters whose literals gave the same base name:
\* the second one carries the suffixed name
C3_Witness ==
  /\ Done(1)
  /\ {"x_y", "x_y_1"} \subseteq NamesOf(ret[1].params)
  /\ param_names = NamesOf(params)

\* C4: in the returned SQL no placeholder name stands at two different
\* positions: every rewritten literal or identifier has a placeholder of its
\* own.
C4_OwnPlaceholder ==
  Done(1) =>
    \A i, j \in PlaceholderSites(ret[1].sql) :
      i # j => PlaceholderNameAt(ret[1].sql, i) # PlaceholderNameAt(ret[1].sql, j)

\* C5: a call on an instance that has been used before starts its first pass
\* with an empty list and an empty registry, and returns what a call on a
\* fresh instance with the same flags returns: nothing of an earlier call is
\* left, also when a blank call came in between.
C5_FreshEachCall ==
  /\ pc[1] = "strings" => params = <<>> /\ param_names = {}
  /\ Done(1) => ret[1] = FreshParameterize(arg[1], flags)

\* a call that followed a blank call, which itself followed a call that left
\* parameters behind, has returned parameters of its own
C5_Witness ==
  /\ Done(1)
  /\ reuse[1] = "after_blank"
  /\ Len(ret[1].params) >= 2
  /\ ret[1] = FreshParameterize(arg[1], flags)

\* C6: when a call on non-blank input begins while another call on the same
\* instance is under way, the list and the registry the other call has
\* filled are emptied.
C6_ResetDiscardsOther ==
  [][\A t \in Callers :
       (pc[t] = "idle" /\ pc'[t] = "strings" /\ \E u \in Callers \ {t} : Active(u))
         => params' = <<>> /\ param_names' = {}]_vars

\* a call that another call overlapped has returned SQL with a placeholder
\* that has no entry in the returned list, and a list with an entry made for
\* the other call's SQL
C6_Witness ==
  \E t \in Callers :
    /\ Done(t)
    /\ overlapped[t]
    /\ PlaceholderNames(ret[t].sql) \ NamesOf(ret[t].params) # {}
    /\ \E k \in 1..Len(ret[t].params) :
         \A j \in 1..Len(FreshParameterize(arg[t], flags).params) :
           ret[t].params[k] # FreshParameterize(arg[t], flags).params[j]

\* the verdict of a call whose question and score decide it
C7_Scored(q, min_score) ==
  IF q.score < min_score THEN Verdict(FALSE, LowScoreMessage(q), q.score)
  ELSE Verdict(TRUE, "", q.score)

\* C7: validate_tool_advanced applies its six checks in the order blank SQL,
\* no parameters, too simple, no placeholder, no meaningful question, score
\* below the threshold; the first check that fails gives the verdict, and the
\* tool is valid exactly when none fails.
C7_ChecksInOrder ==
  vcall.made =>
    LET blank == IsBlank(vcall.sql)
        unparameterized == Len(vcall.params) < 1
        simple == IsTooSimple(vcall.sql)
        unused == PlaceholderNames(vcall.sql) = {}
        undescribed == QuestionRejected(vcall.question)
        passed == ~blank /\ ~unparameterized /\ ~simple /\ ~unused /\ ~undescribed
    IN /\ blank => vres = Verdict(FALSE, "Empty SQL", 0)
       /\ ~blank /\ unparameterized
            => vres = Verdict(FALSE, "No parameters - not reusable", 0)
       /\ ~blank /\ ~unparameterized /\ simple
            => vres = Verdict(FALSE, "Too simple - just SELECT * FROM table", 0)
       /\ ~blank /\ ~unparameterized /\ ~simple /\ unused
            => vres = Verdict(FALSE, "Parameters defined but not used in SQL", 0)
       /\ ~blank /\ ~unparameterized /\ ~simple /\ ~unused /\ undescribed
            => vres = Verdict(FALSE, "No meaningful description", 0)
       /\ passed
            => vres = C7_Scored(calculate_tool_quality_score(vcall.sql, vcall.params,
                                  vcall.question.text), vcall.min_score)
       /\ vres.is_valid
            <=> passed /\ calculate_tool_quality_score(vcall.sql, vcall.params,
                            vcall.question.text).score >= vcall.min_score

\* a call in which both the parameter-count check and the "too simple" check
\* fail has returned the message of the earlier one
C7_Witness ==
  /\ vcall.made
  /\ Len(vcall.params) < 1
  /\ IsTooSimple(vcall.sql)
  /\ vres = Verdict(FALSE, "No parameters - not reusable", 0)

\* C8 as stated: a tool whose SQL carries a placeholder that names no entry
\* of the parameter list is not valid.
C8_UndeclaredRejected ==
  vcall.made /\ PlaceholderNames(vcall.sql) \ NamesOf(vcall.params) # {}
    => ~vres.is_valid

\* C8: a tool whose SQL carries no placeholder at all is not valid; the names
\* of the placeholders are not compared with the parameter list.
C8_NoPlaceholderRejected ==
  vcall.made /\ PlaceholderNames(vcall.sql) = {} => ~vres.is_valid

\* a call with parameters, on SQL that is neither blank nor too simple and
\* carries no placeholder, has been rejected by the placeholder check
C8_Witness ==
  /\ vcall.made
  /\ PlaceholderNames(vcall.sql) = {}
  /\ Len(vcall.params) >= 1
  /\ vres = Verdict(FALSE, "Parameters defined but not used in SQL", 0)

\* statements of the form SELECT * FROM <table> with an optional semicolon,
\* in either case
TooSimpleForms == {"SELECT * FROM t", "select  *  from users ;"}

\* C9 as stated: a statement of the form SELECT * FROM <table> is rejected
\* with "Too simple", whatever the parameter list.
C9_TooSimpleAlways ==
  vcall.made /\ vcall.sql \in TooSimpleForms
    => vres = Verdict(FALSE, "Too simple - just SELECT * FROM table", 0)

\* C9: a statement of the form SELECT * FROM <table> is rejected with "Too
\* simple" whenever the parameter list is not empty; with an empty list the
\* parameter-count check rejects it first.
C9_TooSimpleWithParams ==
  vcall.made /\ vcall.sql \in TooSimpleForms =>
    /\ Len(vcall.params) >= 1
         => vres = Verdict(FALSE, "Too simple - just SELECT * FROM table", 0)
    /\ Len(vcall.params) < 1
         => vres = Verdict(FALSE, "No parameters - not reusable", 0)

\* a lower-case SELECT * statement with a semicolon, passed with parameters,
\* has been rejected as too simple
C9_Witness ==
  /\ vcall.made
  /\ vcall.sql = "select  *  from users ;"
  /\ Len(vcall.params) >= 1
  /\ vres.msg = "Too simple - just SELECT * FROM table"

\* C10 as stated: a call in which no pass rewrote anything returns the SQL
\* unchanged with an empty list, and the validator rejects that result with
\* "No parameters - not reusable".
C10_NothingRewritten ==
  Done(1) /\ rewrites[1] = 0 =>
    /\ ret[1] = [sql |-> arg[1], params |-> <<>>]
    /\ \A q \in ValQuestions, m \in ValMinScores :
         validate_tool_advanced(ret[1].sql, ret[1].params, q, m)
           = Verdict(FALSE, "No parameters - not reusable", 0)

\* C10: a call in which no pass rewrote anything returns the SQL unchanged
\* with an empty list; the validator rejects that result, for every question
\* and threshold, with "No parameters - not reusable" when the SQL is not
\* blank and with "Empty SQL" when it is.
C10_NothingToParameterize ==
  Done(1) /\ rewrites[1] = 0 =>
    /\ ret[1] = [sql |-> arg[1], params |-> <<>>]
    /\ \A q \in ValQuestions, m \in ValMinScores :
         validate_tool_advanced(ret[1].sql, ret[1].params, q, m)
           = IF IsBlank(arg[1]) THEN Verdict(FALSE, "Empty SQL", 0)
             ELSE Verdict(FALSE, "No parameters - not reusable", 0)

\* "SELECT * FROM t" has gone through all passes with the table pass off and
\* come back as it was, after an earlier call had left parameters behind
C10_Witness ==
  /\ Done(1)
  /\ arg[1] = "SELECT * FROM t"
  /\ rewrites[1] = 0
  /\ reuse[1] = "reused"
  /\ ret[1].params = <<>>

\* the empty and the whitespace-only input
BlankInputs == {"", "  "}

\* C11: a call on empty or whitespace-only input returns at once: it gives
\* back the input itself with an empty list, runs no pass, and leaves the
\* list and the registry of the instance as they are.  (Inputs are strings
\* here; None takes the same branch through "not sql".)
C11_BlankReturnsAtOnce ==
  [][pc[1] = "idle" /\ pc'[1] # "idle" /\ arg'[1] \in BlankInputs =>
       /\ pc'[1] = "done"
       /\ ret'[1] = [sql |-> arg'[1], params |-> <<>>]
       /\ UNCHANGED <<params, param_names, sql>>]_vars

\* a whitespace-only call has returned on an instance that still holds the
\* parameters of the call before it
C11_Witness ==
  /\ Done(1)
  /\ arg[1] = "  "
  /\ ret[1] = [sql |-> "  ", params |-> <<>>]
  /\ params # <<>>

\* base names the passes ask _make_param_name for
NameBases == {"limit", "offset", "table", "select_col", "value", "x_y", "order_col"}

Suffixed(b, k) == b \o "_" \o ToString(k)

\* C13: for the registry of any reachable state, _make_param_name(base) maps
\* limit to limit_n and offset to offset_n, returns the mapped base when it is
\* free and otherwise base_k for the smallest k >= 1 with base_k free; the
\* name it returns is never in the registry.  (The operator only computes a
\* name, as lines 17-33 only read self.param_names.)
C13_SmallestFreeName ==
  \A base \in NameBases :
    LET b == IF base = "limit" THEN "limit_n"
             ELSE IF base = "offset" THEN "offset_n" ELSE base
        n == make_param_name(base, param_names)
    IN /\ n \notin param_names
       /\ b \notin param_names => n = b
       /\ b \in param_names =>
            \E k \in 1..(Cardinality(param_names) + 1) :
              /\ n = Suffixed(b, k)
              /\ \A j \in 1..(k - 1) : Suffixed(b, j) \in param_names

\* the registry holds table, table_1 and limit_n: the next table name is
\* table_2 and the next name for limit is limit_n_1
C13_Witness ==
  /\ {"table", "table_1", "limit_n"} \subseteq param_names
  /\ make_param_name("table", param_names) = "table_2"
  /\ make_param_name("limit", param_names) = "limit_n_1"

RECURSIVE TokensFrom(_, _)
\* the names of the template tokens of s from position i on, left to right
TokensFrom(s, i) ==
  LET Rest(p) == IF p = 0 THEN <<>>
                 ELSE <<PlaceholderNameAt(s, p)>> \o TokensFrom(s, p + 1)
  IN Rest(First({p \in PlaceholderSites(s) : p >= i}))

RECURSIVE Embeds(_, _)
\* the sequence a is b with some elements left out
Embeds(a, b) ==
  IF a = <<>> THEN TRUE
  ELSE IF b = <<>> THEN FALSE
  ELSE IF Head(a) = Head(b) THEN Embeds(Tail(a), Tail(b))
  ELSE Embeds(a, Tail(b))

\* the passes over SELECT columns, WHERE, JOIN ON, GROUP BY and
\* LIMIT/OFFSET/ORDER BY
ClausePasses == {"select", "where", "join", "group", "special"}

\* C14: a step of the SELECT-column, WHERE, JOIN ON, GROUP BY or
\* LIMIT/OFFSET/ORDER BY pass keeps every template token its text holds, in
\* order, and wraps none of them in a new placeholder.
C14_TokensKept ==
  [][pc[1] \in ClausePasses /\ pc'[1] # pc[1] =>
       /\ Embeds(TokensFrom(sql[1], 1), TokensFrom(sql'[1], 1))
       /\ Count(sql'[1], "{{.{{.") <= Count(sql[1], "{{.{{.")]_vars

\* a call on a statement with seven tokens of its own has returned them all,
\* next to placeholders the passes added
C14_Witness ==
  /\ Done(1)
  /\ flags = DefaultFlags
  /\ TokensFrom(arg[1], 1) = <<"c", "t", "w", "g", "o", "n", "m">>
  /\ TokensFrom(ret[1].sql, 1) =
       <<"c", "select_col_2", "t", "w", "value", "g", "o", "n", "m">>

\* C12: the breakdown calculate_tool_quality_score returns has parameters in
\* 0..40, complexity in 0..30, description in 0..20 and reusability in
\* 0..10, and the score is the sum of the four, hence in 0..100.
C12_ScoreRanges ==
  vscore # <<>> =>
    /\ vscore[1].breakdown.parameters \in 0..40
    /\ vscore[1].breakdown.complexity \in 0..30
    /\ vscore[1].breakdown.description \in 0..20
    /\ vscore[1].breakdown.reusability \in 0..10
    /\ vscore[1].score = vscore[1].breakdown.parameters + vscore[1].breakdown.complexity
                          + vscore[1].breakdown.description
                          + vscore[1].breakdown.reusability
    /\ vscore[1].score \in 0..100

\* a statement whose clauses add up to more than 30 complexity points has
\* been scored with five parameters and a long question
C12_Witness ==
  /\ vscore # <<>>
  /\ calculate_complexity_score_uncapped(vcall.sql) > 30
  /\ vscore[1].breakdown.complexity = 30
  /\ Len(vcall.params) = 5
  /\ vscore[1].breakdown.description > 4

\* the structure labels in the order the source tests for them
StructureOrder ==
  <<"join", "left_join", "right_join", "count", "sum", "avg", "minmax", "grouped",
    "sorted", "having", "filtered", "distinct", "limited", "offset", "subquery">>

OperationLabels == {"select", "insert", "update", "delete", "create", "alter", "drop"}

\* the keyword test of a structure label on the upper-cased statement u
LabelTest(l, u) ==
  CASE l = "join" -> Contains(u, "JOIN")
    [] l = "left_join" -> Contains(u, "LEFT JOIN")
    [] l = "right_join" -> Contains(u, "RIGHT JOIN")
    [] l = "count" -> HasCall(u, {"COUNT"})
    [] l = "sum" -> HasCall(u, {"SUM"})
    [] l = "avg" -> HasCall(u, {"AVG"})
    [] l = "minmax" -> HasCall(u, {"MAX", "MIN"})
    [] l = "grouped" -> Contains(u, "GROUP BY")
    [] l = "sorted" -> Contains(u, "ORDER BY")
    [] l = "having" -> Contains(u, "HAVING")
    [] l = "filtered" -> Contains(u, "WHERE")
    [] l = "distinct" -> Contains(u, "DISTINCT")
    [] l = "limited" -> Contains(u, "LIMIT")
    [] l = "offset" -> Contains(u, "OFFSET")
    [] l = "subquery" -> Count(u, "SELECT") > 1

\* the labels of a comma-joined label string
LabelList(s) == IF s = "" THEN <<>> ELSE StripAll(Split(s, ","))

\* where a label stands in the fixed order
OrderIndex(l) == CHOOSE k \in 1..Len(StructureOrder) : StructureOrder[k] = l

\* C17: generate_labels emits at most one operation label, the keyword the
\* statement starts with, and it comes first; the structure labels follow in
\* the fixed order join, left_join, right_join, count, sum, avg, minmax,
\* grouped, sorted, having, filtered, distinct, limited, offset, subquery,
\* each present exactly when its keyword test holds;
\* "SELECT COUNT(*) FROM t GROUP BY t.id" gives select, count, grouped.
C17_LabelOrder ==
  lab # <<>> =>
    LET L == LabelList(lab[1])
        u == Upper(lsql)
        ops == {k \in 1..Len(L) : L[k] \in OperationLabels}
    IN /\ ops \subseteq {1}
       /\ 1 \in ops <=> \E kw \in OperationLabels :
                          StartsWith(Strip(u, SpaceChars), Upper(kw))
       /\ 1 \in ops => StartsWith(Strip(u, SpaceChars), Upper(L[1]))
       /\ \A k \in (1..Len(L)) \ ops :
            \E j \in 1..Len(StructureOrder) : StructureOrder[j] = L[k]
       /\ \A j, k \in (1..Len(L)) \ ops : j < k => OrderIndex(L[j]) < OrderIndex(L[k])
       /\ \A j \in 1..Len(StructureOrder) :
            (\E k \in 1..Len(L) : L[k] = StructureOrder[j])
              <=> LabelTest(StructureOrder[j], u)
       /\ lsql = "SELECT COUNT(*) FROM t GROUP BY t.id"
            => lab[1] = "select, count, grouped"

\* the statement of the example has been labelled
C17_Witness ==
  /\ lsql = "SELECT COUNT(*) FROM t GROUP BY t.id"
  /\ lab = <<"select, count, grouped">>

\* whether generate_smart_tool_name detects a feature: of count, sum and
\* aggregate it takes the first whose call occurs, and JOIN in any form
\* counts as joined
FeatureDetected(f, s) ==
  CASE f = "count" -> HasCall(s, {"COUNT"})
    [] f = "sum" -> ~HasCall(s, {"COUNT"}) /\ HasCall(s, {"SUM"})
    [] f = "aggregate" -> ~HasCall(s, {"COUNT", "SUM"}) /\ HasCall(s, {"AVG", "MAX", "MIN"})
    [] f = "grouped" -> HasWordPair(s, "GROUP", "BY")
    [] f = "joined" -> HasWord(s, "JOIN")
    [] f = "left_joined" -> FALSE
    [] f = "filtered" -> HasWord(s, "WHERE")
    [] f = "sorted" -> HasWordPair(s, "ORDER", "BY")
    [] f = "limited" -> HasWord(s, "LIMIT")
    [] f = "distinct" -> HasWord(s, "DISTINCT")
    [] f = "having" -> HasWord(s, "HAVING")
    [] f = "offset" -> HasWord(s, "OFFSET")

\* the tags of the priority order, highest priority first
TagOrder ==
  <<"count", "sum", "aggregate", "grouped", "joined", "left_joined", "filtered",
    "sorted", "limited", "distinct", "having", "offset">>

C19_NoNestedPlaceholder ==
  Done(1) /\ ~Contains(arg[1], "{{.") => ~Contains(ret[1].sql, "{{.{{.")

\* the comparison operators of the WHERE-column pass
WhereOperators ==
  {"=", "!=", "<>", ">=", "<=", ">", "<", "IN", "NOT IN", "LIKE", "NOT LIKE", "IS", "IS NOT"}

\* the bare columns the statements compare in their WHERE clause
WhereColumns == {"age", "code", "id", "b", "note"}

\* C20: with parameterize_columns on, the WHERE-column pass turns a bare
\* column before any of the operators =, !=, <>, >=, <=, >, <, IN, NOT IN,
\* LIKE, NOT LIKE, IS, IS NOT into a where_col placeholder and leaves the
\* operator outside it.
C20_WhereColumnRewritten ==
  [][pc[1] = "where" /\ pc'[1] # "where" /\ flags.parameterize_columns =>
       \A op \in WhereOperators, col \in WhereColumns :
         Contains(sql[1], " WHERE " \o col \o " " \o op \o " ")
           => Contains(sql'[1], " WHERE {{.where_col}} " \o op \o " ")]_vars

HexChars == DigitChars \cup {"a", "b", "c", "d", "e", "f"}

\* the fields of a tool entry
ToolFields == {"kind", "source", "statement", "description", "templateParameters"}

\* C15: create_tool returns ({}, reason) with the validator's reason for a
\* record the validator rejects; for an accepted record it returns a mapping
\* with exactly one key, the generated name, "_" and four hex characters of
\* the hash of sql + question, and the entry under it holds kind, source,
\* statement (the parameterized SQL), description and templateParameters
\* (the parameter list parameterize() returned).
C15_CreateToolResult ==
  made # <<>> =>
    LET Accepted(p, key, name) ==
          /\ DOMAIN made[1].tool = {key}
          /\ Cardinality(DOMAIN made[1].tool) = 1
          /\ Len(key) = Len(name) + 5
          /\ Prefix(key, Len(name) + 1) = name \o "_"
          /\ \A i \in (Len(name) + 2)..Len(key) : At(key, i) \in HexChars
          /\ SubSeq(key, Len(name) + 2, Len(key)) =
               Prefix(Sha1Hex(rec.sql \o rec.question), 4)
          /\ DOMAIN made[1].tool[key] = ToolFields
          /\ made[1].tool[key].kind = ToolKind
          /\ made[1].tool[key].source = ToolSource
          /\ made[1].tool[key].statement = p.sql
          /\ made[1].tool[key].templateParameters = p.params
          /\ made[1].tool[key].description # ""
        Check(p, v) ==
          IF ~v.is_valid
          THEN v.msg # "" /\ made[1] = [tool |-> EmptyMap, key |-> v.msg]
          ELSE Accepted(p, made[1].key, generate_smart_tool_name(p.sql, rec.question))
        Validated(p) ==
          Check(p, validate_tool_advanced(p.sql, p.params, StrQuestion(rec.question),
                                          rec.min_score))
    IN Validated(parameterize(rec.sql, [parameterize_tables |-> rec.parameterize_tables,
                                        parameterize_columns |-> TRUE]))

\* one record has been accepted and collected, the next one rejected for its
\* missing question
C15_Witness ==
  /\ made = <<[tool |-> EmptyMap, key |-> "No meaningful description"]>>
  /\ batch # <<>>
  /\ DOMAIN batch[1] = {"select_filtered_limited_172f"}

\* the keys the tools of a list carry
KeysOf(tools) == UNION {DOMAIN tools[i] : i \in 1..Len(tools)}

\* the last tool of a list that carries the key k
LastWith(tools, k) ==
  tools[CHOOSE i \in 1..Len(tools) :
          /\ k \in DOMAIN tools[i]
          /\ \A j \in (i + 1)..Len(tools) : k \notin DOMAIN tools[j]]

\* C16: after merge_yaml the document holds, for every key of the list, the
\* record of the last tool carrying that key, every entry it held before
\* under a key not in the list unchanged, and no other entries; its other
\* top-level keys stay.
C16_MergeByKey ==
  [][~saved /\ saved' =>
       /\ DOMAIN doc'.tools = DOMAIN doc.tools \cup KeysOf(batch)
       /\ \A k \in KeysOf(batch) : doc'.tools[k] = LastWith(batch, k)[k]
       /\ \A k \in DOMAIN doc.tools \ KeysOf(batch) : doc'.tools[k] = doc.tools[k]
       /\ doc'.rest = doc.rest]_vars

\* two different tools with one key have been merged into a file that held
\* that key's neighbour: the later tool is in, the old entry untouched
C16_Witness ==
  /\ saved
  /\ Len(batch) = 2
  /\ DOMAIN batch[1] = DOMAIN batch[2]
  /\ batch[1] # batch[2]
  /\ \A k \in DOMAIN batch[2] : doc.tools[k] = batch[2][k]
  /\ "old_tool" \in DOMAIN doc.tools
  /\ doc.tools["old_tool"] = OldEntry("SELECT 1")

\* C21: the GROUP BY pass turns a bare column of the clause into a group_col
\* placeholder wherever the clause ends: before ORDER, HAVING or LIMIT, before
\* a ";", or at the end of the statement with no whitespace after it.
C21_GroupByRewritten ==
  [][pc[1] = "group" /\ pc'[1] # "group" =>
       (Contains(sql[1], " GROUP BY city")
          => Contains(sql'[1], " GROUP BY {{.group_col}}"))]_vars

\* C22: with parameterize_tables on, the table pass leaves an identifier that
\* is followed by "(" as it is: a function call after FROM stays in the text
\* and gets no parameter.
C22_FunctionCallKept ==
  [][pc[1] = "tables" /\ pc'[1] # "tables" /\ flags.parameterize_tables =>
       (Contains(sql[1], "FROM generate_series(")
          => /\ Contains(sql'[1], "FROM generate_series(")
             /\ params' = params)]_vars

\* a placeholder of s is directly followed by a word character
Glued(s) ==
  \E i \in 1..(Len(s) - 2) : SubSeq(s, i, i + 1) = "}}" /\ IsWord(s, i + 2)

\* C23: the LIMIT/OFFSET/ORDER BY pass leaves no placeholder directly
\* followed by a keyword: after "ORDER BY <column>" without a direction the
\* whitespace before the following text stays.
C23_OrderKeepsSpace ==
  [][pc[1] = "special" /\ pc'[1] # "special" /\ ~Glued(sql[1])
       => ~Glued(sql'[1])]_vars

\* where the standalone numeric literals of s start
LiteralStarts(s) ==
  {j \in 1..Len(s) :
     /\ NumberMatch(s, j) # NoMatch
     /\ ~\E k \in 1..(j - 1) : NumberMatch(s, k) # NoMatch /\ NumberMatch(s, k).end > j}

\* the 40 characters before position j hold a comparison context and neither
\* LIMIT nor OFFSET
InContext(s, j) ==
  LET Before(b) ==
        /\ ~Contains(b, "LIMIT") /\ ~Contains(b, "OFFSET")
        /\ \E kw \in {"WHERE", "HAVING", "BETWEEN", ">", "<", "="} : Contains(b, kw)
  IN Before(Upper(SubSeq(s, IF j > 40 THEN j - 40 ELSE 1, j - 1)))

RECURSIVE Ascending(_)
Ascending(S) == IF S = {} THEN <<>> ELSE <<MinOf(S)>> \o Ascending(S \ {MinOf(S)})

\* s with the first occurrence of a replaced by b
ReplaceFirst(s, a, b) ==
  LET At1(P) == IF P = {} THEN s
                ELSE SubSeq(s, 1, MinOf(P) - 1) \o b
                       \o SubSeq(s, MinOf(P) + Len(a), Len(s))
  IN At1({i \in 1..(Len(s) - Len(a) + 1) : SubSeq(s, i, i + Len(a) - 1) = a})

\* the example a numeric parameter carries in its description
NumericExample(p) ==
  SubSeq(p.description, Len("Numeric value (e.g., ") + 1, Len(p.description) - 1)

RECURSIVE Restore(_, _, _)
\* s with the placeholder of each parameter ps[k..] put back to its example
Restore(s, ps, k) ==
  IF k > Len(ps) THEN s
  ELSE Restore(ReplaceFirst(s, Placeholder(ps[k].name), NumericExample(ps[k])), ps, k + 1)

\* C24: the numeric pass replaces exactly the standalone numeric literals
\* that have WHERE, HAVING, BETWEEN or a comparison operator, and neither
\* LIMIT nor OFFSET, within the 40 characters before them: one new parameter
\* each, in text order, named threshold (suffixed on collision) when the
\* literal has a decimal point and value otherwise; putting the literals
\* back gives the text before the pass, so everything else is untouched.
C24_NumberContexts ==
  [][pc[1] = "numbers" /\ pc'[1] # "numbers" =>
       LET Base(text) == IF Contains(text, ".") THEN "threshold" ELSE "value"
           Named(p, text) ==
             /\ p.description = "Numeric value (e.g., " \o text \o ")"
             /\ \/ p.name = Base(text)
                \/ Prefix(p.name, Len(Base(text)) + 1) = Base(text) \o "_"
           Check(lits, new) ==
             /\ Len(new) = Len(lits)
             /\ \A k \in 1..Len(lits) : Named(new[k], NumberMatch(sql[1], lits[k]).group1)
             /\ Restore(sql'[1], new, 1) = sql[1]
       IN /\ Len(params') >= Len(params)
          /\ SubSeq(params', 1, Len(params)) = params
          /\ Check(Ascending({j \in LiteralStarts(sql[1]) : InContext(sql[1], j)}),
                   SubSeq(params', Len(params) + 1, Len(params')))]_vars

\* the numeric pass has replaced the 30 of a comparison and kept the 10 that
\* has both LIMIT and the comparison before it
C24_Witness ==
  /\ pc[1] = "tables"
  /\ arg[1] = "SELECT name FROM users WHERE age > 30 LIMIT 10"
  /\ sql[1] = "SELECT name FROM users WHERE age > {{.value}} LIMIT 10"
  /\ NameSeq(params) = <<"value">>

\* the order expressions and directions of the statements
OrderPlain == {"name", "t.a"}
OrderCalls == {"LOWER(name)", "COUNT(*)"}
OrderDirs == {"DESC", "asc"}

\* the list ps has a parameter n with the description text and the example
HasParam(ps, n, text, example) ==
  \E k \in 1..Len(ps) :
    ps[k].name = n /\ ps[k].description = text \o " (e.g., " \o example \o ")"

\* C25: the ORDER BY rewrite leaves an expression with a function call
\* literal and replaces a direction after it by an order_dir placeholder; it
\* replaces any other expression by an order_col placeholder and a direction
\* after it by order_dir; each placeholder it inserts has its parameter, and
\* no parameter comes without its placeholder.
C25_OrderBy ==
  [][pc[1] = "special" /\ pc'[1] # "special" =>
       LET Directed(pre, e, d) == Contains(pre, "ORDER BY " \o e \o " " \o d)
           Bare(pre, e) ==
             Contains(pre, "ORDER BY " \o e) /\ \A d \in OrderDirs : ~Directed(pre, e, d)
           Col(e) == HasParam(params', "order_col", "Column to order by", e)
           Dir(d) == HasParam(params', "order_dir", "Sort direction (ASC/DESC)", d)
           Check(pre, post) ==
             /\ \A e \in OrderPlain :
                  /\ \A d \in OrderDirs :
                       Directed(pre, e, d) =>
                         /\ Contains(post, "ORDER BY {{.order_col}} {{.order_dir}}")
                         /\ Col(e) /\ Dir(d)
                  /\ Bare(pre, e) =>
                       /\ Contains(post, "ORDER BY {{.order_col}}")
                       /\ Col(e) /\ "order_dir" \notin param_names'
             /\ \A f \in OrderCalls :
                  /\ \A d \in OrderDirs :
                       Directed(pre, f, d) =>
                         /\ Contains(post, "ORDER BY " \o f \o " {{.order_dir}}")
                         /\ Dir(d) /\ "order_col" \notin param_names'
                  /\ Bare(pre, f) =>
                       /\ Contains(post, "ORDER BY " \o f)
                       /\ "order_col" \notin param_names'
                       /\ "order_dir" \notin param_names'
             /\ \A n \in {"order_col", "order_dir"} :
                  Count(post, Placeholder(n)) = IF n \in param_names' THEN 1 ELSE 0
       IN Check(sql[1], sql'[1])]_vars

\* a call on ORDER BY LOWER(name) DESC has returned the expression as it was
\* and the direction as order_dir
C25_Witness ==
  /\ Done(1)
  /\ arg[1] = "SELECT a FROM t ORDER BY LOWER(name) DESC"
  /\ Contains(ret[1].sql, "ORDER BY LOWER(name) {{.order_dir}}")
  /\ HasParam(ret[1].params, "order_dir", "Sort direction (ASC/DESC)", "DESC")

RECURSIVE QuotedFrom(_, _, _)
\* the contents of the literals of s in the quote character q from position
\* i on, in text order
QuotedFrom(s, q, i) ==
  LET Next1(M) == IF M = {} THEN <<>>
                  ELSE <<Leftmost(M).group1>> \o QuotedFrom(s, q, Leftmost(M).end)
  IN Next1(Matches({StringMatch(s, q, j) : j \in i..Len(s)}))

\* the contents the string pass leaves in place
KeptLiteral(v) == Len(v) <= 1 \/ Upper(v) \in {"ASC", "DESC", "Y", "N", "YES", "NO"}

RECURSIVE Replaceable(_, _)
\* the contents of vs[k..] that are not left in place
Replaceable(vs, k) ==
  IF k > Len(vs) THEN <<>>
  ELSE (IF KeptLiteral(vs[k]) THEN <<>> ELSE <<vs[k]>>) \o Replaceable(vs, k + 1)

\* the example a parameter carries at the end of its description
ExampleOf(p) ==
  LET From(P) == SubSeq(p.description, MinOf(P) + Len(" (e.g., "), Len(p.description) - 1)
  IN From({i \in 1..(Len(p.description) - 7) :
             SubSeq(p.description, i, i + 7) = " (e.g., "})

\* C26: the string pass leaves a quoted literal of length at most 1, or equal
\* to ASC, DESC, Y, N, YES or NO in any letter case, in place with no
\* parameter, and replaces every other quoted literal by a placeholder with
\* one new parameter; the parameters of all double-quoted literals come
\* before those of the single-quoted ones.
C26_StringLiterals ==
  [][pc[1] = "strings" /\ pc'[1] # "strings" =>
       LET Check(doubles, singles, double_new, single_new) ==
             /\ Len(params') = Len(double_new) + Len(single_new)
             /\ \A k \in 1..Len(params') :
                  /\ ExampleOf(params'[k]) = (double_new \o single_new)[k]
                  /\ Count(sql'[1], Placeholder(params'[k].name)) = 1
             /\ DistinctNames(params')
             /\ \A k \in 1..Len(doubles) :
                  KeptLiteral(doubles[k]) => Contains(sql'[1], "\"" \o doubles[k] \o "\"")
             /\ \A k \in 1..Len(singles) :
                  KeptLiteral(singles[k]) => Contains(sql'[1], "'" \o singles[k] \o "'")
             /\ Count(sql'[1], "\"") = 2 * (Len(doubles) - Len(double_new))
             /\ Count(sql'[1], "'") = 2 * (Len(singles) - Len(single_new))
           Lits(doubles, singles) ==
             Check(doubles, singles, Replaceable(doubles, 1), Replaceable(singles, 1))
       IN Lits(QuotedFrom(sql[1], "\"", 1), QuotedFrom(sql[1], "'", 1))]_vars

\* the string pass has run on a statement whose single-quoted literal stands
\* ahead of its double-quoted one, with a literal it skips in between
C26_Witness ==
  /\ pc[1] = "numbers"
  /\ arg[1] = "SELECT a FROM t WHERE c = 'x-y' AND d = 'desc' AND b = \"x y\" AND e LIKE '%ab/c%'"
  /\ sql[1] = "SELECT a FROM t WHERE c = {{.x_y_1}} AND d = 'desc' AND b = {{.x_y}} AND e LIKE {{.ab_c}}"
  /\ NameSeq(params) = <<"x_y", "x_y_1", "ab_c">>

\* the list ps has a parameter whose description starts with text
DescribedAs(ps, text) ==
  \E k \in 1..Len(ps) : Prefix(ps[k].description, Len(text)) = text

\* the counts the statements give after LIMIT and OFFSET
ClauseCounts == {"2", "3", "4", "5", "10", "20"}

\* C27: with parameterize_tables off no table parameter is created, with
\* parameterize_columns off no SELECT, WHERE or JOIN column parameter is
\* created, and under every combination of the flags a call turns LIMIT n,
\* OFFSET n and ORDER BY column [direction] into limit_n, offset_n,
\* order_col and order_dir.
C27_FlagsGateOwnPasses ==
  /\ ~flags.parameterize_tables => ~DescribedAs(params, "Table name")
  /\ ~flags.parameterize_columns =>
       \A t \in {"Column to select", "Column to filter on", "Column to join on"} :
         ~DescribedAs(params, t)
  /\ Done(1) /\ ~Contains(arg[1], "{{.") =>
       /\ \A n \in ClauseCounts :
            /\ Contains(arg[1], " LIMIT " \o n) =>
                 /\ Contains(ret[1].sql, "LIMIT {{.limit_n}}")
                 /\ ~Contains(ret[1].sql, "LIMIT " \o n)
                 /\ "limit_n" \in NamesOf(ret[1].params)
            /\ Contains(arg[1], " OFFSET " \o n) =>
                 /\ Contains(ret[1].sql, "OFFSET {{.offset_n}}")
                 /\ "offset_n" \in NamesOf(ret[1].params)
       /\ \A e \in OrderPlain :
            /\ Contains(arg[1], " ORDER BY " \o e) =>
                 /\ Contains(ret[1].sql, "ORDER BY {{.order_col}}")
                 /\ "order_col" \in NamesOf(ret[1].params)
            /\ \A d \in OrderDirs :
                 Contains(arg[1], " ORDER BY " \o e \o " " \o d) =>
                   /\ Contains(ret[1].sql, "ORDER BY {{.order_col}} {{.order_dir}}")
                   /\ "order_dir" \in NamesOf(ret[1].params)

\* with both flags off a call has returned LIMIT, OFFSET and ORDER BY
\* parameterized and the table and the columns as they were
C27_Witness ==
  /\ Done(1)
  /\ flags = [parameterize_tables |-> FALSE, parameterize_columns |-> FALSE]
  /\ arg[1] = "SELECT name FROM users WHERE age > 30 ORDER BY name LIMIT 10 OFFSET 20"
  /\ NameSeq(ret[1].params) = <<"value", "limit_n", "offset_n", "order_col">>
  /\ Contains(ret[1].sql, "SELECT name FROM users WHERE age ")

\* C28: the complexity score of a statement is that of its upper-cased form:
\* keywords count in any letter case, the second SELECT of a nested query
\* included.  Statements with a placeholder named after select are left
\* aside: upper-casing them writes a further SELECT into the text.
C28_CaseInsensitive ==
  vscore # <<>> /\ ~Contains(Upper(vcall.sql), "{{.SELECT") =>
    vscore[1].breakdown.complexity = calculate_complexity_score(Upper(vcall.sql))

\* the six outcome counters of a run
Counters == {"success", "empty_sql", "quality_issues", "low_score", "high_score", "errors"}

RECURSIVE SumOver(_, _)
SumOver(st, cs) ==
  IF cs = {} THEN 0
  ELSE LET c == CHOOSE x \in cs : TRUE IN st[c] + SumOver(st, cs \ {c})

\* C29: every turn of the batch loop, whether the record is accepted,
\* rejected or raises, raises exactly one of the six counters by one and
\* leaves the others; the tool list grows by one exactly when that counter
\* is success; so at any time the counters sum to the records gone through
\* and the tools number the successes.
C29_OneCounterPerRecord ==
  /\ [](SumOver(stats, Counters) = seen /\ Len(batch) = stats.success)
  /\ [][seen' = seen + 1 =>
          /\ \E c \in Counters :
                /\ stats'[c] = stats[c] + 1
                /\ \A o \in Counters \ {c} : stats'[o] = stats[o]
          /\ Len(batch') - Len(batch) = stats'.success - stats.success]_vars

\* two records gone through, one accepted and one that raised
C29_Witness ==
  seen = 2 /\ stats.success = 1 /\ stats.errors = 1 /\ Len(batch) = 1

\* the narration and the parameter summary, the empty ones left out
DescParts(s, ps) ==
  (IF describe_sql_structure(s) # "" THEN <<describe_sql_structure(s)>> ELSE <<>>) \o
  (IF describe_parameters(ps) # "" THEN <<describe_parameters(ps)>> ELSE <<>>)

\* C30: the description does not depend on the question: whatever questions
\* generate_semantic_description was called with for a statement and its
\* parameters, it returned the same text, which is the narration of the
\* statement and the summary of the parameters joined by ". ", of at most
\* 500 characters.
C30_QuestionIgnored ==
  /\ \A q1, q2 \in DOMAIN described : described[q1] = described[q2]
  /\ \A q \in DOMAIN described :
        /\ described[q] = Prefix(Join(DescParts(dcall.sql, dcall.params), ". "), 500)
        /\ Len(described[q]) <= 500

\* a query with parameters described for two non-empty questions, both
\* parts in the text
C30_Witness ==
  /\ \E q1, q2 \in DOMAIN described : q1 # q2 /\ q1 # "" /\ q2 # ""
  /\ dcall.params # <<>>
  /\ Len(DescParts(dcall.sql, dcall.params)) = 2
====
